---- MODULE Spec2Model ----
(***************************************************************************)
(* Model of the tradeit matching engine: engine::OrderBook (addOrder,      *)
(* match, insertLimitOrder, cancelOrder, getBestBid, getBestAsk).          *)
(*                                                                         *)
(* Prices are doubles in the source; the book only compares them and uses  *)
(* them as map keys, so they are modelled as small naturals (ticks).       *)
(* Order.instrument and Order.timestamp are carried by the source but read *)
(* by no book operation except to copy the timestamp into a Trade; they    *)
(* are left out of the Order record.  A resting entry carries one ghost    *)
(* field, arrival: the ordinal of the addOrder call that inserted it.      *)
(*                                                                         *)
(* The strategies (MarketMaker, MomentumTrader, ArbitrageTrader) are       *)
(* records mm, mo, arb of their member variables; the threads that drive   *)
(* them (the thread delivering trades, the main thread, the workers) are   *)
(* program counters in drv and in the strategies' worker fields.           *)
(***************************************************************************)
EXTENDS Naturals, Integers, Sequences, FiniteSets, TLC

VARIABLES books, call, nops, tradeLog, mm, mo, arb, drv, sim, thr

vars == <<books, call, nops, tradeLog, mm, mo, arb, drv, sim, thr>>

bookVars == <<books, call, nops, tradeLog>>

stratVars == <<mm, mo, arb, drv>>

simVars == <<sim, thr>>

----------------------------------------------------------------------------
(* Bounds of the model *)

MaxOps == 3
MaxOpsBooks == 6
MaxPrice == 2
MaxQty == 2
MaxId == 2

Instruments == {"ETH-USD", "BTC-USD"}

OrderIds == 1..MaxId

(* Orders a caller can hand to addOrder.  MARKET orders carry price 0, as   *)
(* in the tests; a LIMIT order of price 0 and quantity 0 is the            *)
(* cancellation intent MarketMaker::placeQuotes submits.                   *)
LimitOrders ==
    [id : OrderIds, type : {"LIMIT"}, side : {"BUY", "SELL"},
     price : 1..MaxPrice, quantity : 0..MaxQty]

CancelIntents ==
    [id : OrderIds, type : {"LIMIT"}, side : {"BUY", "SELL"},
     price : {0}, quantity : {0}]

MarketOrders ==
    [id : OrderIds, type : {"MARKET"}, side : {"BUY", "SELL"},
     price : {0}, quantity : 0..MaxQty]

Orders == LimitOrders \cup CancelIntents \cup MarketOrders

(* The orders of the two-book specification: plain limit orders whose id is *)
(* fresh, as with Order::global_order_id++.                                *)
PlainOrders(n) ==
    [id : {n}, type : {"LIMIT"}, side : {"BUY", "SELL"},
     price : {1, 2}, quantity : {1}]

----------------------------------------------------------------------------
(* Helpers *)

Min(a, b) == IF a <= b THEN a ELSE b

MaxOf(S) == CHOOSE x \in S : \A y \in S : y <= x

MinOf(S) == CHOOSE x \in S : \A y \in S : x <= y

EmptyMap == [x \in {} |-> 0]

(* std::map / std::unordered_map erase(key) *)
MapErase(m, k) == [x \in DOMAIN m \ {k} |-> m[x]]

(* std::deque erase(iterator) at position i *)
SeqErase(q, i) == [j \in 1..(Len(q) - 1) |-> IF j < i THEN q[j] ELSE q[j + 1]]

(* bids_ is ordered by std::greater, asks_ ascending: begin() of each side *)
BeginKey(sideName, m) == IF sideName = "bids" THEN MaxOf(DOMAIN m) ELSE MinOf(DOMAIN m)

OwnSide(order) == IF order.side = "BUY" THEN "bids" ELSE "asks"

OppSide(order) == IF order.side = "BUY" THEN "asks" ELSE "bids"

Entry(order, n) ==
    [id |-> order.id, type |-> order.type, side |-> order.side,
     price |-> order.price, quantity |-> order.quantity, arrival |-> n]

(* variant: the trade id counter starts at 0 *)
NewBook_fromZero == [bids |-> EmptyMap, asks |-> EmptyMap, orders_ |-> EmptyMap, next_trade_id_ |-> 0]

NewBook == [bids |-> EmptyMap, asks |-> EmptyMap, orders_ |-> EmptyMap, next_trade_id_ |-> 1]

NoOrder == [id |-> 0, type |-> "LIMIT", side |-> "BUY", price |-> 0, quantity |-> 0]

NoCall ==
    [op |-> "none", book |-> "ETH-USD", order |-> NoOrder, trades |-> <<>>,
     steps |-> <<>>, ret |-> FALSE, remaining |-> 0]

----------------------------------------------------------------------------
(* OrderBook::getBestBid / getBestAsk: the front of the first level, or none *)

None == [id |-> 0, type |-> "NONE", side |-> "NONE", price |-> 0, quantity |-> 0, arrival |-> 0]

getBest(book, sideName) ==
    IF DOMAIN book[sideName] = {} THEN None
    ELSE LET queue == book[sideName][BeginKey(sideName, book[sideName])]
         IN  IF queue = <<>> THEN None ELSE Head(queue)

getBestBid(book) == getBest(book, "bids")

getBestAsk(book) == getBest(book, "asks")

----------------------------------------------------------------------------
(* OrderBook::insertLimitOrder *)

(* variant: push_front instead of push_back *)
insertLimitOrder_pushFront(book, e) ==
    LET s == OwnSide(e)
        m == book[s]
        m2 == IF e.price \in DOMAIN m
              THEN [m EXCEPT ![e.price] = <<e>> \o @]
              ELSE m @@ (e.price :> <<e>>)
        idx == IF e.id \in DOMAIN book.orders_
               THEN [book.orders_ EXCEPT ![e.id] = e]
               ELSE book.orders_ @@ (e.id :> e)
    IN  [book EXCEPT ![s] = m2, !.orders_ = idx]

insertLimitOrder(book, e) ==
    LET s == OwnSide(e)
        m == book[s]
        m2 == IF e.price \in DOMAIN m
              THEN [m EXCEPT ![e.price] = Append(@, e)]
              ELSE m @@ (e.price :> <<e>>)
        idx == IF e.id \in DOMAIN book.orders_
               THEN [book.orders_ EXCEPT ![e.id] = e]
               ELSE book.orders_ @@ (e.id :> e)
    IN  [book EXCEPT ![s] = m2, !.orders_ = idx]

----------------------------------------------------------------------------
(* OrderBook::match.  A matching state st holds the book as modified so    *)
(* far, the aggressor's remaining quantity (the source decrements          *)
(* order.quantity through a const_cast), the trades produced so far, and a *)
(* ghost record of every match step: the copy of queue.front() taken       *)
(* before the step, the aggressor's remaining quantity before it, and the  *)
(* opposite side as it was before it.                                      *)

(* variant: the trade is priced at the aggressor's price *)
MakeTrade_aggressorPrice(tid, order, resting, instrument, match_price, traded_qty) ==
    [trade_id |-> tid,
     buy_order_id |-> IF order.side = "BUY" THEN order.id ELSE resting.id,
     sell_order_id |-> IF order.side = "BUY" THEN resting.id ELSE order.id,
     instrument |-> instrument,
     price |-> order.price,
     quantity |-> traded_qty,
     side |-> order.side]

MakeTrade(tid, order, resting, instrument, match_price, traded_qty) ==
    [trade_id |-> tid,
     buy_order_id |-> IF order.side = "BUY" THEN order.id ELSE resting.id,
     sell_order_id |-> IF order.side = "BUY" THEN resting.id ELSE order.id,
     instrument |-> instrument,
     price |-> match_price,
     quantity |-> traded_qty,
     side |-> order.side]

(* variant: a partly filled resting order keeps its full quantity *)
MatchFront_noReduce(st, order, instrument, match_price) ==
    LET opp == OppSide(order)
        queue == st.book[opp][match_price]
        resting == Head(queue)
        traded_qty == Min(st.qty, resting.quantity)
        trade == MakeTrade(st.book.next_trade_id_, order, resting, instrument,
                           match_price, traded_qty)
        step == [trade |-> trade, resting |-> resting, agg |-> st.qty,
                 opp |-> st.book[opp]]
        book1 == [st.book EXCEPT !.next_trade_id_ = @ + 1]
        book2 == IF traded_qty = resting.quantity
                 THEN [book1 EXCEPT ![opp][match_price] = Tail(@),
                                    !.orders_ = MapErase(@, resting.id)]
                 ELSE book1
    IN  [book |-> book2, qty |-> st.qty - traded_qty,
         trades |-> Append(st.trades, trade), steps |-> Append(st.steps, step)]

(* the body of the inner while loop: one trade against queue.front() *)
MatchFront(st, order, instrument, match_price) ==
    LET opp == OppSide(order)
        queue == st.book[opp][match_price]
        resting == Head(queue)
        traded_qty == Min(st.qty, resting.quantity)
        trade == MakeTrade(st.book.next_trade_id_, order, resting, instrument,
                           match_price, traded_qty)
        step == [trade |-> trade, resting |-> resting, agg |-> st.qty,
                 opp |-> st.book[opp]]
        book1 == [st.book EXCEPT !.next_trade_id_ = @ + 1]
        book2 == IF traded_qty = resting.quantity
                 THEN [book1 EXCEPT ![opp][match_price] = Tail(@),
                                    !.orders_ = MapErase(@, resting.id)]
                 ELSE [book1 EXCEPT ![opp][match_price][1].quantity = @ - traded_qty]
    IN  [book |-> book2, qty |-> st.qty - traded_qty,
         trades |-> Append(st.trades, trade), steps |-> Append(st.steps, step)]

(* while (!queue.empty() && order.quantity > 0) *)
RECURSIVE MatchLevel(_, _, _, _)
MatchLevel(st, order, instrument, match_price) ==
    IF st.book[OppSide(order)][match_price] # <<>> /\ st.qty > 0
    THEN MatchLevel(MatchFront(st, order, instrument, match_price),
                    order, instrument, match_price)
    ELSE st

(* the level the outer loop works on: begin() of the opposite side *)
MatchBegin(order, m) == BeginKey(OppSide(order), m)

(* while (!side.empty() && order.quantity > 0) *)
RECURSIVE MatchLoop(_, _, _)
MatchLoop(st, order, instrument) ==
    LET opp == OppSide(order) IN
    IF DOMAIN st.book[opp] # {} /\ st.qty > 0
    THEN LET match_price == MatchBegin(order, st.book[opp])
             st1 == MatchLevel(st, order, instrument, match_price)
             st2 == IF st1.book[opp][match_price] = <<>>
                    THEN [st1 EXCEPT !.book[opp] = MapErase(@, match_price)]
                    ELSE st1
         IN  MatchLoop(st2, order, instrument)
    ELSE st

match(book, order, instrument) ==
    MatchLoop([book |-> book, qty |-> order.quantity, trades |-> <<>>, steps |-> <<>>],
              order, instrument)

----------------------------------------------------------------------------
(* OrderBook::addOrder *)

(* variant: a LIMIT order is matched whenever the opposite side is not empty *)
Crosses_anyOpposite(book, order) ==
    \/ order.type = "MARKET"
    \/ /\ order.type = "LIMIT"
       /\ \/ order.side = "BUY" /\ DOMAIN book.asks # {}
          \/ order.side = "SELL" /\ DOMAIN book.bids # {}

(* variant: an order at the best opposite price is not taken to cross *)
Crosses_strict(book, order) ==
    \/ order.type = "MARKET"
    \/ /\ order.type = "LIMIT"
       /\ \/ /\ order.side = "BUY"
             /\ DOMAIN book.asks # {}
             /\ order.price > MinOf(DOMAIN book.asks)
          \/ /\ order.side = "SELL"
             /\ DOMAIN book.bids # {}
             /\ order.price < MaxOf(DOMAIN book.bids)

(* the condition of the first if: the order is matched instead of inserted *)
Crosses(book, order) ==
    \/ order.type = "MARKET"
    \/ /\ order.type = "LIMIT"
       /\ \/ /\ order.side = "BUY"
             /\ DOMAIN book.asks # {}
             /\ order.price >= MinOf(DOMAIN book.asks)
          \/ /\ order.side = "SELL"
             /\ DOMAIN book.bids # {}
             /\ order.price <= MaxOf(DOMAIN book.bids)

(* what addOrder does with an order that was not matched *)
RestOrder(book, order, n) ==
    IF order.type = "LIMIT" THEN insertLimitOrder(book, Entry(order, n)) ELSE book

(* variant: what is left of any matched order is inserted in the book *)
addOrder_restsResidual(book, order, instrument, n) ==
    IF Crosses(book, order)
    THEN LET st == match(book, order, instrument)
         IN  IF st.qty > 0
             THEN [st EXCEPT !.book = insertLimitOrder(@, [Entry(order, n) EXCEPT !.quantity = st.qty])]
             ELSE st
    ELSE [book |-> RestOrder(book, order, n), qty |-> order.quantity,
          trades |-> <<>>, steps |-> <<>>]

addOrder(book, order, instrument, n) ==
    IF Crosses(book, order)
    THEN match(book, order, instrument)
    ELSE [book |-> RestOrder(book, order, n), qty |-> order.quantity,
          trades |-> <<>>, steps |-> <<>>]

----------------------------------------------------------------------------
(* OrderBook::cancelOrder: bids_ are searched first, each side from        *)
(* begin(), each queue from its front; the first entry with the id is      *)
(* erased, its level dropped when it became empty, and the id erased from  *)
(* orders_.                                                                *)

HasId(q, id) == \E i \in 1..Len(q) : q[i].id = id

FirstIndex(q, id) == MinOf({i \in 1..Len(q) : q[i].id = id})

LevelsWith(m, id) == {p \in DOMAIN m : HasId(m[p], id)}

EraseFirst(book, sideName, id) ==
    LET m == book[sideName]
        p == BeginKey(sideName, [x \in LevelsWith(m, id) |-> 0])
        q == SeqErase(m[p], FirstIndex(m[p], id))
        m2 == IF q = <<>> THEN MapErase(m, p) ELSE [m EXCEPT ![p] = q]
    IN  [book EXCEPT ![sideName] = m2, !.orders_ = MapErase(@, id)]

(* variant: the final return reports success *)
cancelOrder_reportsTrue(book, order_id) ==
    IF LevelsWith(book.bids, order_id) # {}
    THEN [book |-> EraseFirst(book, "bids", order_id), ret |-> TRUE]
    ELSE IF LevelsWith(book.asks, order_id) # {}
    THEN [book |-> EraseFirst(book, "asks", order_id), ret |-> TRUE]
    ELSE [book |-> book, ret |-> TRUE]

cancelOrder(book, order_id) ==
    IF LevelsWith(book.bids, order_id) # {}
    THEN [book |-> EraseFirst(book, "bids", order_id), ret |-> TRUE]
    ELSE IF LevelsWith(book.asks, order_id) # {}
    THEN [book |-> EraseFirst(book, "asks", order_id), ret |-> TRUE]
    ELSE [book |-> book, ret |-> FALSE]

----------------------------------------------------------------------------
(* MarketMaker.  Its quote prices are in units of 0.005, so that the mean  *)
(* of two prices that are multiples of 0.01 is a whole number; times are   *)
(* in microseconds.                                                        *)

inventory_limit_ == 10

max_age_us == 500000

(* max_price_drift = 0.02 *)
max_price_drift == 4

(* the floor 0.01 of the half-spread, and 0.05, the half-spread used when  *)
(* a side is missing                                                       *)
min_half_spread == 2

default_half_spread == 10

(* the max_loss values a strategy is constructed with here *)
MaxLossChoices == {0 - 2, 0 - 50}

Abs(x) == IF x < 0 THEN 0 - x ELSE x

Max(a, b) == IF a >= b THEN a ELSE b

MMSymbol == "ETH-USD"

(* MarketMaker after construction: idle, no worker *)
MMNew(max_loss) ==
    [running_ |-> FALSE, worker |-> "none", max_loss_ |-> max_loss,
     current_bid_id_ |-> 0, current_ask_id_ |-> 0, order_id_counter_ |-> 1,
     active_orders_ |-> EmptyMap, filled_quantity_ |-> EmptyMap,
     inventory_ |-> 0, realized_pnl_ |-> 0, peak_pnl_ |-> 0, max_drawdown_ |-> 0,
     risk_violated_ |-> FALSE, total_quotes_ |-> 0, total_trades_ |-> 0,
     total_quantity_ |-> 0, now |-> 0, cycles |-> 0,
     latched |-> FALSE, cycle_after_latch |-> FALSE, submitted |-> <<>>,
     pnl_mutex_ |-> "free"]

(* filled_quantity_[id] += q: operator[] creates the entry when missing *)
MapAdd(m, k, q) == IF k \in DOMAIN m THEN [m EXCEPT ![k] = @ + q] ELSE m @@ (k :> q)

MapPut(m, k, v) == IF k \in DOMAIN m THEN [m EXCEPT ![k] = v] ELSE m @@ (k :> v)

(* the breach test of onTrade and placeQuotes *)
MMBreach(m) ==
    m.realized_pnl_ <= m.max_loss_ \/ Abs(m.inventory_) > inventory_limit_

(* variant: the fill is accounted whether or not the id is an own quote *)
MMFill_anyId(m, id, trade, sign) ==
    [m EXCEPT !.inventory_ = @ + sign * trade.quantity,
              !.realized_pnl_ = @ - sign * trade.price * trade.quantity,
              !.total_quantity_ = @ + trade.quantity]

(* onTrade, the fill of the own order id: sign is +1 for the buy order id, *)
(* -1 for the sell order id                                                *)
MMFill(m, id, trade, sign) ==
    IF id \in DOMAIN m.active_orders_
    THEN LET filled == MapAdd(m.filled_quantity_, id, trade.quantity)
             done == filled[id] >= m.active_orders_[id].quantity
         IN  [m EXCEPT !.filled_quantity_ = IF done THEN MapErase(filled, id) ELSE filled,
                       !.active_orders_ = IF done THEN MapErase(@, id) ELSE @,
                       !.inventory_ = @ + sign * trade.quantity,
                       !.realized_pnl_ = @ - sign * trade.price * trade.quantity,
                       !.total_quantity_ = @ + trade.quantity]
    ELSE m

(* peak_pnl_ = max(peak_pnl_, realized_pnl_); max_drawdown_ = max(...) *)
TrackDrawdown(m) ==
    LET peak == Max(m.peak_pnl_, m.realized_pnl_)
    IN  [m EXCEPT !.peak_pnl_ = peak,
                  !.max_drawdown_ = Max(@, peak - m.realized_pnl_)]

(* variant: the loss limit is tested with < *)
MMLatch_strict(m) ==
    IF m.realized_pnl_ < m.max_loss_ \/ Abs(m.inventory_) > inventory_limit_
    THEN [m EXCEPT !.risk_violated_ = TRUE, !.running_ = FALSE, !.latched = TRUE]
    ELSE m

(* the risk test at the end of onTrade; latched is the ghost that records  *)
(* that onTrade has set the flag                                           *)
MMLatch(m) ==
    IF MMBreach(m)
    THEN [m EXCEPT !.risk_violated_ = TRUE, !.running_ = FALSE, !.latched = TRUE]
    ELSE m

MM_onTrade(m, trade) ==
    IF trade.instrument # MMSymbol THEN m
    ELSE LET m1 == [m EXCEPT !.total_trades_ = @ + 1]
             m2 == MMFill(m1, trade.buy_order_id, trade, 1)
             m3 == MMFill(m2, trade.sell_order_id, trade, 0 - 1)
         IN  MMLatch(TrackDrawdown(m3))

(* placeQuotes, the block under pnl_mutex_: a breach sets the flag and     *)
(* clears running_, otherwise the flag is cleared                          *)
MM_precheck(m) ==
    IF MMBreach(m)
    THEN [m EXCEPT !.risk_violated_ = TRUE, !.running_ = FALSE]
    ELSE [m EXCEPT !.risk_violated_ = FALSE]

(* variant: the mid is computed without testing for a missing side *)
computeMidPrice_unchecked(top) == (top[1] + top[2]) \div 2

(* computeMidPrice: -1 when a side is missing; top is <<best bid, best ask>> *)
(* as prices, 0 for a missing side                                          *)
computeMidPrice(top) ==
    IF top[1] = 0 \/ top[2] = 0 THEN 0 - 1 ELSE (top[1] + top[2]) \div 2

(* variant: half the book's spread, without the floor of 0.01 *)
HalfSpread_noFloor(top) ==
    IF top[1] # 0 /\ top[2] # 0
    THEN (top[2] - top[1]) \div 2
    ELSE default_half_spread

(* the half-spread of placeQuotes, from its own reading of the book *)
HalfSpread(top) ==
    IF top[1] # 0 /\ top[2] # 0
    THEN Max(min_half_spread, (top[2] - top[1]) \div 2)
    ELSE default_half_spread

(* the lambda cancel_if_stale *)
cancel_if_stale(m, id, new_price, now_us) ==
    IF id \notin DOMAIN m.active_orders_ THEN TRUE
    ELSE LET old == m.active_orders_[id]
         IN  \/ now_us > old.timestamp + max_age_us
             \/ Abs(old.price - new_price) > max_price_drift

MMOrder(id, side, price, qty, ts) ==
    [id |-> id, instrument |-> MMSymbol, type |-> "LIMIT", side |-> side,
     price |-> price, quantity |-> qty, timestamp |-> ts]

(* one slot of placeQuotes: the cancellation intent for a stale or absent  *)
(* quote, then a new quote when the slot is empty.  slot is               *)
(* "current_bid_id_" or "current_ask_id_".                                 *)
MMCancelSlot(m, slot, side, new_price, now_us) ==
    IF cancel_if_stale(m, m[slot], new_price, now_us)
    THEN [m EXCEPT !.submitted = Append(@, MMOrder(m[slot], side, 0, 0, 0)),
                   !.active_orders_ = MapErase(@, m[slot]),
                   !.filled_quantity_ = MapErase(@, m[slot]),
                   ![slot] = 0]
    ELSE m

MMQuoteSlot(m, slot, side, price, ts) ==
    IF m[slot] = 0
    THEN LET quote == MMOrder(m.order_id_counter_, side, price, 1, ts)
         IN  [m EXCEPT !.order_id_counter_ = @ + 1,
                       !.submitted = Append(@, quote),
                       !.active_orders_ = MapPut(@, quote.id, quote),
                       !.filled_quantity_ = MapPut(@, quote.id, 0),
                       ![slot] = quote.id]
    ELSE m

(* placeQuotes after the risk block; top is what the book shows to         *)
(* computeMidPrice, top2 what it shows to the second reading in            *)
(* placeQuotes, now_us the clock.  The orders handed to the submit         *)
(* callback in this call are collected in submitted.                       *)
MM_quote(m, top, top2, now_us) ==
    LET mid == computeMidPrice(top)
        spread == HalfSpread(top2)
        bid_price == mid - spread
        ask_price == mid + spread
        m0 == [m EXCEPT !.submitted = <<>>]
        m1 == MMCancelSlot(m0, "current_bid_id_", "BUY", bid_price, now_us)
        m2 == MMCancelSlot(m1, "current_ask_id_", "SELL", ask_price, now_us)
        m3 == MMQuoteSlot(m2, "current_bid_id_", "BUY", bid_price, now_us)
        m4 == MMQuoteSlot(m3, "current_ask_id_", "SELL", ask_price, now_us)
    IN  IF mid < 0 THEN m0
        ELSE [m4 EXCEPT !.total_quotes_ = @ + 2]

----------------------------------------------------------------------------
(* MomentumTrader.  worker is the state of worker_: "none" before start,   *)
(* "loop" while run() executes, "exited" once run() has returned and the   *)
(* thread is still joinable, "joined" after join.                          *)

MoSymbol == "ETH-USD"

(* the cooldown of 1 s after an order, in microseconds *)
cooldown_us == 1000000

MoNew(max_loss) ==
    [running_ |-> FALSE, worker |-> "none", max_loss_ |-> max_loss,
     position_ |-> 0, realized_pnl_ |-> 0, peak_pnl_ |-> 0, max_drawdown_ |-> 0,
     risk_violated_ |-> FALSE, total_trades_ |-> 0, total_quantity_ |-> 0,
     recent_prices_ |-> <<>>, cooldown_end_ts_ |-> 0, data_mutex_ |-> "free",
     now |-> 0, cycles |-> 0]

(* variant: the price of any instrument is recorded *)
Mo_onMarketData_anyInstrument(m, instrument, price) ==
    LET ps == Append(m.recent_prices_, price)
    IN  [m EXCEPT !.recent_prices_ = IF Len(ps) > 5 THEN Tail(ps) ELSE ps]

(* onMarketData: the price is appended, the oldest dropped beyond five *)
Mo_onMarketData(m, instrument, price) ==
    IF instrument # MoSymbol THEN m
    ELSE LET ps == Append(m.recent_prices_, price)
         IN  [m EXCEPT !.recent_prices_ = IF Len(ps) > 5 THEN Tail(ps) ELSE ps]

RECURSIVE SumSeq(_)
SumSeq(q) == IF q = <<>> THEN 0 ELSE Head(q) + SumSeq(Tail(q))

(* variant: the cooldown is not consulted *)
MoSubmits_noCooldown(m, now_us) == Len(m.recent_prices_) >= 3

(* evaluateMomentum: whether an order is submitted at time now_us *)
MoSubmits(m, now_us) ==
    Len(m.recent_prices_) >= 3 /\ ~(now_us < m.cooldown_end_ts_)

(* variant: a price equal to the average also buys *)
MoAction_orEqual(m) ==
    LET n == Len(m.recent_prices_)
        current == m.recent_prices_[n]
    IN  IF current * (n - 1) >= SumSeq(SubSeq(m.recent_prices_, 1, n - 1))
        THEN "BUY" ELSE "SELL"

(* evaluateMomentum: the side of the order, BUY when the last price is     *)
(* above the average of the earlier ones                                   *)
MoAction(m) ==
    LET n == Len(m.recent_prices_)
        current == m.recent_prices_[n]
    IN  IF current * (n - 1) > SumSeq(SubSeq(m.recent_prices_, 1, n - 1))
        THEN "BUY" ELSE "SELL"

(* the order evaluateMomentum builds *)
MoOrder(m, id) ==
    [id |-> id, instrument |-> MoSymbol, type |-> "MARKET", side |-> MoAction(m),
     price |-> m.recent_prices_[Len(m.recent_prices_)], quantity |-> 1]

(* variant: max_drawdown_ is overwritten by the current drawdown *)
Mo_account_lastDrawdown(m, trade) ==
    LET qty == IF trade.buy_order_id < trade.sell_order_id
               THEN trade.quantity ELSE 0 - trade.quantity
        pnl == 0 - qty * trade.price
        m1 == [m EXCEPT !.position_ = @ + qty,
                        !.realized_pnl_ = @ + pnl,
                        !.total_trades_ = @ + 1,
                        !.total_quantity_ = @ + trade.quantity]
        peak == Max(m1.peak_pnl_, m1.realized_pnl_)
    IN  [m1 EXCEPT !.peak_pnl_ = peak, !.max_drawdown_ = peak - m1.realized_pnl_]

(* onTrade up to the risk test: position, pnl, counters, drawdown *)
Mo_account(m, trade) ==
    LET qty == IF trade.buy_order_id < trade.sell_order_id
               THEN trade.quantity ELSE 0 - trade.quantity
        pnl == 0 - qty * trade.price
    IN  TrackDrawdown([m EXCEPT !.position_ = @ + qty,
                                !.realized_pnl_ = @ + pnl,
                                !.total_trades_ = @ + 1,
                                !.total_quantity_ = @ + trade.quantity])

(* variant: the loss limit itself counts as a breach *)
MoBreach_orEqual(m) == m.realized_pnl_ <= m.max_loss_

(* the risk test of onTrade *)
MoBreach(m) == m.realized_pnl_ < m.max_loss_

(* onTrade up to the join inside stop(): a breach sets the flag and        *)
(* clears running_                                                         *)
Mo_onTrade(m, trade) ==
    IF trade.instrument # MoSymbol THEN m
    ELSE LET m1 == Mo_account(m, trade)
         IN  IF MoBreach(m1)
             THEN [m1 EXCEPT !.risk_violated_ = TRUE, !.running_ = FALSE]
             ELSE m1

(* whether onTrade reaches the join of stop() with a joinable worker_ *)
MoJoins(m, trade) ==
    /\ trade.instrument = MoSymbol
    /\ MoBreach(Mo_account(m, trade))
    /\ m.worker \in {"loop", "exited"}

----------------------------------------------------------------------------
(* ArbitrageTrader on the pair symbol1_, symbol2_.                         *)

symbol1_ == "ETH-USD"

symbol2_ == "BTC-USD"

(* ArbitrageTrader after construction with spread 0.03 and order size 15,  *)
(* as its tests build it.  Its prices are in units of 0.01.  pending and   *)
(* submitted are ghosts of the onMarketData call in progress: the orders   *)
(* checkArbitrageOpportunity has still to hand to the submit callback and  *)
(* those it has handed over.                                               *)
ArbNew(max_loss) ==
    [running_ |-> FALSE, max_loss_ |-> max_loss, positions_ |-> EmptyMap,
     realized_pnl_ |-> 0, peak_pnl_ |-> 0, max_drawdown_ |-> 0,
     risk_violated_ |-> FALSE, total_trades_ |-> 0, total_quantity_ |-> 0,
     spread_ |-> 3, order_size_ |-> 15,
     best_bid_ |-> EmptyMap, best_ask_ |-> EmptyMap,
     pending |-> <<>>, submitted |-> <<>>]

(* variant: the latest quote replaces the recorded one *)
Arb_onMarketData_lastQuote(m, instrument, order) ==
    IF order.side = "BUY"
    THEN [m EXCEPT !.best_bid_ = MapPut(@, instrument, order.price)]
    ELSE [m EXCEPT !.best_ask_ = MapPut(@, instrument, order.price)]

(* onMarketData under mutex_, before the opportunity check: operator[] on  *)
(* best_bid_ creates a missing entry as 0                                  *)
Arb_onMarketData(m, instrument, order) ==
    IF order.side = "BUY"
    THEN LET old == IF instrument \in DOMAIN m.best_bid_ THEN m.best_bid_[instrument] ELSE 0
         IN  [m EXCEPT !.best_bid_ = MapPut(@, instrument, Max(old, order.price))]
    ELSE IF instrument \notin DOMAIN m.best_ask_ \/ order.price < m.best_ask_[instrument]
         THEN [m EXCEPT !.best_ask_ = MapPut(@, instrument, order.price)]
         ELSE m

(* variant: the constructor's spread is the threshold *)
threshold_spread == ArbNew(0).spread_

(* double threshold = 0.05 *)
threshold == 5

(* an order of checkArbitrageOpportunity, with the book it is meant for *)
ArbOrder(id, instrument, side, price) ==
    [book |-> instrument,
     order |-> [id |-> id, type |-> "LIMIT", side |-> side, price |-> price,
                quantity |-> 10]]

(* checkArbitrageOpportunity: the orders it hands to the submit callback,  *)
(* in order; id is the value of Order::global_order_id at its start        *)
checkArbitrageOpportunity(m, id) ==
    IF ~({symbol1_, symbol2_} \subseteq (DOMAIN m.best_ask_ \cap DOMAIN m.best_bid_))
    THEN <<>>
    ELSE LET ask1 == m.best_ask_[symbol1_]
             bid2 == m.best_bid_[symbol2_]
             ask2 == m.best_ask_[symbol2_]
             bid1 == m.best_bid_[symbol1_]
             first == IF (bid2 - ask1) > threshold
                      THEN <<ArbOrder(id, symbol1_, "BUY", ask1),
                             ArbOrder(id + 1, symbol2_, "SELL", bid2)>>
                      ELSE <<>>
             n == id + Len(first)
             second == IF (bid1 - ask2) > threshold
                       THEN <<ArbOrder(n, symbol2_, "BUY", ask2),
                              ArbOrder(n + 1, symbol1_, "SELL", bid1)>>
                       ELSE <<>>
         IN  first \o second

(* variant: the signed quantity has the sign of a SELL for a BUY *)
ArbQty_inverted(trade) ==
    IF trade.side = "BUY" THEN 0 - trade.quantity ELSE trade.quantity

(* onTrade, the signed quantity of a trade on the pair *)
ArbQty(trade) ==
    IF trade.side = "BUY" THEN trade.quantity ELSE 0 - trade.quantity

(* onTrade; the summary line it prints reads positions_[symbol1_] and      *)
(* positions_[symbol2_], which creates both entries                        *)
Arb_onTrade(m, trade) ==
    IF ~m.running_ THEN m
    ELSE LET mine == trade.instrument \in {symbol1_, symbol2_}
             qty == ArbQty(trade)
             pnl == IF mine THEN qty * trade.price ELSE 0
             pos == IF mine THEN MapAdd(m.positions_, trade.instrument, qty)
                            ELSE m.positions_
             m1 == TrackDrawdown([m EXCEPT !.realized_pnl_ = @ + pnl,
                                           !.total_trades_ = @ + 1,
                                           !.total_quantity_ = @ + trade.quantity])
             m2 == IF m1.realized_pnl_ < m1.max_loss_
                   THEN [m1 EXCEPT !.risk_violated_ = TRUE, !.running_ = FALSE]
                   ELSE m1
         IN  [m2 EXCEPT !.positions_ = MapAdd(MapAdd(pos, symbol1_, 0), symbol2_, 0)]

----------------------------------------------------------------------------
(* The state machine: one action per public operation of a book.  call is  *)
(* the record of the last operation (its input, its result and the ghost   *)
(* match steps), nops the number of operations so far, tradeLog the ids of *)
(* all trades each book has emitted, in order.                             *)

TradeIds(trades) == [i \in 1..Len(trades) |-> trades[i].trade_id]

NoTrade == MakeTrade(0, NoOrder, NoOrder, "", 0, 0)

(* the threads outside the strategies: main is the position of the main    *)
(* thread (Simulator::start, Simulator::stop), pc and trade the position   *)
(* of the thread that delivers trades, last the handler that ran last      *)
DrvNew == [main |-> "init", pc |-> "idle", trade |-> NoTrade, ntrades |-> 0,
           nfeed |-> 0, last |-> "none"]

(* the threads that call Simulator::onOrder *)
Threads == {"feed", "worker"}

(* Simulator after construction: no strategy, no book (created is the key  *)
(* set of books_), mutex_ free.  deliveries is the ghost record of the     *)
(* onTrade calls made by onOrder, ticket counts the acquisitions of mutex_.*)
SimNew == [strategies_ |-> <<>>, created |-> {}, deliveries |-> <<>>,
           mutex_ |-> "free", ticket |-> 0, global_order_id |-> 1]

ThrNew == [t \in Threads |-> [pc |-> "idle", order |-> NoOrder, book |-> "",
                               trades |-> <<>>, next |-> 1, ticket |-> 0]]

(* the strategies after construction with the loss limit max_loss *)
StratInit(max_loss) ==
    /\ mm = MMNew(max_loss)
    /\ mo = MoNew(max_loss)
    /\ arb = ArbNew(max_loss)
    /\ drv = DrvNew
    /\ sim = SimNew
    /\ thr = ThrNew

Init ==
    /\ books = [b \in Instruments |-> NewBook]
    /\ call = NoCall
    /\ nops = 0
    /\ tradeLog = [b \in Instruments |-> <<>>]
    /\ \E max_loss \in {MinOf(MaxLossChoices)} : StratInit(max_loss)

AddOrder(b, order) ==
    LET r == addOrder(books[b], order, b, nops + 1) IN
    /\ books' = [books EXCEPT ![b] = r.book]
    /\ call' = [op |-> "addOrder", book |-> b, order |-> order, trades |-> r.trades,
                steps |-> r.steps, ret |-> FALSE, remaining |-> r.qty]
    /\ nops' = nops + 1
    /\ tradeLog' = [tradeLog EXCEPT ![b] = @ \o TradeIds(r.trades)]
    /\ UNCHANGED <<stratVars, simVars>>

CancelOrder(b, order_id) ==
    LET r == cancelOrder(books[b], order_id) IN
    /\ books' = [books EXCEPT ![b] = r.book]
    /\ call' = [op |-> "cancelOrder", book |-> b,
                order |-> [NoOrder EXCEPT !.id = order_id], trades |-> <<>>,
                steps |-> <<>>, ret |-> r.ret, remaining |-> 0]
    /\ nops' = nops + 1
    /\ UNCHANGED <<tradeLog, stratVars, simVars>>

(* One book, every kind of order *)
Next ==
    /\ nops < MaxOps
    /\ \/ \E order \in Orders : AddOrder("ETH-USD", order)
       \/ \E order_id \in OrderIds : CancelOrder("ETH-USD", order_id)

Spec == Init /\ [][Next]_vars

(* Two books, plain limit orders *)
NextBooks ==
    /\ nops < MaxOpsBooks
    /\ \E b \in Instruments : \E order \in PlainOrders(nops + 1) : AddOrder(b, order)

SpecBooks == Init /\ [][NextBooks]_vars

----------------------------------------------------------------------------
(* The strategies under trades from outside: a thread delivers each trade  *)
(* to MarketMaker, MomentumTrader and ArbitrageTrader in turn, as the      *)
(* inner loop of Simulator::onOrder does; the workers and the main thread  *)
(* run beside it.  The submit callback collects the orders.                *)

MaxTrades == 2

MaxCycles == 2

StratTrade(instrument, buy, sell, side, price, qty) ==
    [NoTrade EXCEPT !.trade_id = 1, !.instrument = instrument, !.buy_order_id = buy,
                    !.sell_order_id = sell, !.side = side, !.price = price,
                    !.quantity = qty]

(* ids 1 and 2 are MarketMaker's first bid and ask, 8 and 9 are foreign *)
StratTrades ==
    {StratTrade("ETH-USD", f[1], f[2], f[3], pq[1], pq[2]) :
        f \in {<<1, 9, "SELL">>, <<9, 2, "BUY">>, <<8, 9, "BUY">>, <<9, 8, "SELL">>},
        pq \in {<<2, 1>>, <<1, 11>>}}
    \cup {StratTrade("BTC-USD", 8, 9, side, 2, 1) : side \in {"BUY", "SELL"}}
    \cup {StratTrade("DOGE-USD", 8, 9, "BUY", 2, 1)}

(* what the book shows to a quoting cycle: no side, a bid only, or bid 1.00, *)
(* ask 1.02                                                                 *)
Tops == {<<0, 0>>, <<200, 0>>, <<200, 204>>}

(* the time from one reading of the clock to the next, after the 500 ms    *)
(* sleep                                                                   *)
Sleeps == {max_age_us, max_age_us + 1}

(* Simulator::start: each strategy's start() in turn *)
StartAll ==
    /\ drv.main = "init"
    /\ mm' = [mm EXCEPT !.running_ = TRUE, !.worker = "check"]
    /\ mo' = [mo EXCEPT !.running_ = TRUE, !.worker = "loop"]
    /\ arb' = [arb EXCEPT !.running_ = TRUE]
    /\ drv' = [drv EXCEPT !.main = "run", !.last = "start"]
    /\ UNCHANGED <<bookVars, simVars>>

(* one trade delivered to the three strategies.  MomentumTrader::onTrade   *)
(* blocks in stop() when it has to join its worker; a join while the main  *)
(* thread is joining the same worker is undefined and ends the run.        *)
Dispatch(trade) ==
    /\ drv.pc = "idle"
    /\ drv.ntrades < MaxTrades
    /\ mm' = MM_onTrade(mm, trade)
    /\ mo' = Mo_onTrade(mo, trade)
    /\ IF MoJoins(mo, trade)
       THEN /\ arb' = arb
            /\ drv' = [drv EXCEPT !.pc = "mo_join", !.trade = trade,
                                   !.ntrades = @ + 1, !.last = "onTrade",
                                   !.main = IF @ = "stop_mo" THEN "terminated" ELSE @]
       ELSE /\ arb' = Arb_onTrade(arb, trade)
            /\ drv' = [drv EXCEPT !.trade = trade, !.ntrades = @ + 1,
                                   !.last = "onTrade"]
    /\ UNCHANGED <<bookVars, simVars>>

(* the join inside MomentumTrader::onTrade returns; the delivery goes on   *)
(* with ArbitrageTrader                                                    *)
DispatchResume ==
    /\ drv.pc = "mo_join"
    /\ mo.worker = "exited"
    /\ mo' = [mo EXCEPT !.worker = "joined"]
    /\ arb' = Arb_onTrade(arb, drv.trade)
    /\ drv' = [drv EXCEPT !.pc = "idle", !.last = "onTradeResumed"]
    /\ UNCHANGED <<bookVars, simVars, mm>>

(* MarketMaker::run, the test of while (running_) *)
MMWorkerCheck ==
    /\ mm.worker = "check"
    /\ mm.running_ => mm.cycles < MaxCycles
    /\ mm' = [mm EXCEPT !.worker = IF mm.running_ THEN "precheck" ELSE "exited"]
    /\ drv' = [drv EXCEPT !.last = "mmCheck"]
    /\ UNCHANGED <<bookVars, simVars, mo, arb>>

(* placeQuotes, the block under pnl_mutex_; after a breach placeQuotes     *)
(* returns and the worker sleeps                                           *)
MMWorkerPrecheck(dt) ==
    /\ mm.worker = "precheck"
    /\ LET m == [MM_precheck(mm) EXCEPT !.cycle_after_latch = mm.latched,
                                        !.submitted = <<>>]
       IN  mm' = IF MMBreach(mm)
                 THEN [m EXCEPT !.worker = "check", !.now = @ + dt, !.cycles = @ + 1]
                 ELSE [m EXCEPT !.worker = "quote"]
    /\ drv' = [drv EXCEPT !.last = "mmPrecheck"]
    /\ UNCHANGED <<bookVars, simVars, mo, arb>>

(* the rest of placeQuotes, then the sleep; nothing writes the book during *)
(* the call, both readings show the same; call records what they showed    *)
MMWorkerQuote(top, dt) ==
    /\ mm.worker = "quote"
    /\ mm' = [MM_quote(mm, top, top, mm.now) EXCEPT !.worker = "check", !.now = @ + dt,
                                               !.cycles = @ + 1]
    /\ call' = [op |-> "placeQuotes", top |-> top, top2 |-> top]
    /\ drv' = [drv EXCEPT !.last = "mmQuote"]
    /\ UNCHANGED <<books, nops, tradeLog, simVars, mo, arb>>

(* MomentumTrader::run leaves its loop *)
MoWorkerExit ==
    /\ mo.worker = "loop"
    /\ ~mo.running_
    /\ mo' = [mo EXCEPT !.worker = "exited"]
    /\ drv' = [drv EXCEPT !.last = "moExit"]
    /\ UNCHANGED <<bookVars, simVars, mm, arb>>

(* Simulator::stop, MarketMaker::stop up to its join *)
StopMM ==
    /\ drv.main = "run"
    /\ mm' = [mm EXCEPT !.running_ = FALSE]
    /\ drv' = [drv EXCEPT !.main = "stop_mm", !.last = "stop"]
    /\ UNCHANGED <<bookVars, simVars, mo, arb>>

(* MarketMaker's worker is joined; MomentumTrader::stop up to its join *)
StopMo ==
    /\ drv.main = "stop_mm"
    /\ mm.worker = "exited"
    /\ mm' = [mm EXCEPT !.worker = "joined"]
    /\ mo' = [mo EXCEPT !.running_ = FALSE]
    /\ drv' = [drv EXCEPT !.main = IF drv.pc = "mo_join" THEN "terminated" ELSE "stop_mo",
                           !.last = "stop"]
    /\ UNCHANGED <<bookVars, simVars, arb>>

(* MomentumTrader's worker is joined, if this thread has to; then          *)
(* ArbitrageTrader::stop                                                   *)
StopArb ==
    /\ drv.main = "stop_mo"
    /\ mo.worker \in {"exited", "joined"}
    /\ mo' = [mo EXCEPT !.worker = "joined"]
    /\ arb' = [arb EXCEPT !.running_ = FALSE]
    /\ drv' = [drv EXCEPT !.main = "stopped", !.last = "stop"]
    /\ UNCHANGED <<bookVars, simVars, mm>>

NextStrat ==
    /\ drv.main # "terminated"
    /\ \/ StartAll
       \/ \E trade \in StratTrades : Dispatch(trade)
       \/ DispatchResume
       \/ MMWorkerCheck
       \/ \E dt \in Sleeps : MMWorkerPrecheck(dt)
       \/ \E top \in Tops, dt \in Sleeps : MMWorkerQuote(top, dt)
       \/ MoWorkerExit
       \/ StopMM
       \/ StopMo
       \/ StopArb

InitStrat ==
    /\ books = [b \in Instruments |-> NewBook]
    /\ call = NoCall
    /\ nops = 0
    /\ tradeLog = [b \in Instruments |-> <<>>]
    /\ \E max_loss \in MaxLossChoices : StratInit(max_loss)

SpecStrat == InitStrat /\ [][NextStrat]_vars

----------------------------------------------------------------------------
(* MarketMaker's worker alone, over a book that other threads write: each  *)
(* cycle is one call of placeQuotes, whose two readings of the book may    *)
(* differ.  Prices are multiples of 0.01, so that the mean is exact.       *)

MaxQuoteCycles == 1

QuotePrices == {0, 198, 200, 202, 204, 208}

QuoteTops == {top \in QuotePrices \X QuotePrices : top[1] = 0 \/ top[2] = 0 \/ top[1] < top[2]}

(* MarketMaker::start *)
QuoteStart ==
    /\ drv.main = "init"
    /\ mm' = [mm EXCEPT !.running_ = TRUE, !.worker = "check"]
    /\ drv' = [drv EXCEPT !.main = "run", !.last = "start"]
    /\ call' = NoCall
    /\ UNCHANGED <<books, nops, tradeLog, simVars, mo, arb>>

(* one iteration of MarketMaker::run: placeQuotes, then the sleep *)
QuoteCycle(top, top2, dt) ==
    /\ drv.main = "run"
    /\ mm.running_
    /\ mm.cycles < MaxQuoteCycles
    /\ LET m == MM_precheck(mm)
           q == IF MMBreach(mm) THEN [m EXCEPT !.submitted = <<>>]
                ELSE MM_quote(m, top, top2, mm.now)
       IN  mm' = [q EXCEPT !.now = @ + dt, !.cycles = @ + 1]
    /\ call' = [op |-> "placeQuotes", top |-> top, top2 |-> top2]
    /\ drv' = [drv EXCEPT !.last = "mmQuote"]
    /\ UNCHANGED <<books, nops, tradeLog, simVars, mo, arb>>

NextQuote ==
    \/ QuoteStart
    \/ \E top \in QuoteTops, top2 \in QuoteTops, dt \in Sleeps : QuoteCycle(top, top2, dt)

SpecQuote == InitStrat /\ [][NextQuote]_vars

----------------------------------------------------------------------------
(* The Simulator called from one thread: strategies are registered and     *)
(* orders arrive; each onOrder runs to its end.                            *)

MaxOpsSim == 3

Strategies == {"MarketMaker", "MomentumTrader", "ArbitrageTrader"}

SimOrders(n) ==
    [id : {n}, type : {"LIMIT"}, side : {"BUY", "SELL"}, price : {1},
     quantity : 1..MaxQty]

(* the inner loop of onOrder: one trade to every strategy in turn *)
dispatchTrade(trade, strategies) ==
    [j \in 1..Len(strategies) |-> [strategy |-> strategies[j], trade |-> trade]]

(* variant: the loops are nested the other way round *)
RECURSIVE dispatch_strategyMajor(_, _)
dispatch_strategyMajor(trades, strategies) ==
    IF strategies = <<>> THEN <<>>
    ELSE [i \in 1..Len(trades) |-> [strategy |-> Head(strategies), trade |-> trades[i]]]
         \o dispatch_strategyMajor(trades, Tail(strategies))

(* the loops of onOrder: the onTrade calls in the order they are made *)
RECURSIVE dispatch(_, _)
dispatch(trades, strategies) ==
    IF trades = <<>> THEN <<>>
    ELSE dispatchTrade(Head(trades), strategies) \o dispatch(Tail(trades), strategies)

(* strategy->onTrade(trade) on the strategies st = [mm, mo, arb] *)
onTrade(st, d) ==
    CASE d.strategy = "MarketMaker" -> [st EXCEPT !.mm = MM_onTrade(@, d.trade)]
      [] d.strategy = "MomentumTrader" -> [st EXCEPT !.mo = Mo_onTrade(@, d.trade)]
      [] d.strategy = "ArbitrageTrader" -> [st EXCEPT !.arb = Arb_onTrade(@, d.trade)]

RECURSIVE Deliver(_, _)
Deliver(st, ds) ==
    IF ds = <<>> THEN st ELSE Deliver(onTrade(st, Head(ds)), Tail(ds))

(* Simulator::registerStrategy *)
RegisterStrategy(s) ==
    /\ s \notin {sim.strategies_[j] : j \in 1..Len(sim.strategies_)}
    /\ sim' = [sim EXCEPT !.strategies_ = Append(@, s)]
    /\ call' = [NoCall EXCEPT !.op = "registerStrategy"]
    /\ UNCHANGED <<books, nops, tradeLog, stratVars, thr>>

(* Simulator::onOrder, from try_emplace to the end of the loops *)
OnOrder(b, order) ==
    LET r == addOrder(books[b], order, b, nops + 1)
        ds == dispatch(r.trades, sim.strategies_)
        st == Deliver([mm |-> mm, mo |-> mo, arb |-> arb], ds)
    IN  /\ books' = [books EXCEPT ![b] = r.book]
        /\ call' = [op |-> "onOrder", book |-> b, order |-> order, trades |-> r.trades,
                    steps |-> r.steps, ret |-> FALSE, remaining |-> r.qty]
        /\ nops' = nops + 1
        /\ tradeLog' = [tradeLog EXCEPT ![b] = @ \o TradeIds(r.trades)]
        /\ sim' = [sim EXCEPT !.created = @ \cup {b}, !.deliveries = ds]
        /\ mm' = st.mm
        /\ mo' = st.mo
        /\ arb' = st.arb
        /\ UNCHANGED <<drv, thr>>

NextSim ==
    \/ \E s \in Strategies : RegisterStrategy(s)
    \/ /\ nops < MaxOpsSim
       /\ \E b \in Instruments : \E order \in SimOrders(nops + 1) : OnOrder(b, order)

SpecSim == Init /\ [][NextSim]_vars

----------------------------------------------------------------------------
(* The Simulator under threads, with the callbacks main.cpp builds for     *)
(* MomentumTrader: the feed thread calls onOrder and then the strategy's   *)
(* onMarketData for every order, MomentumTrader's worker calls onOrder     *)
(* through its submit callback.  onOrder is taken step by step: the        *)
(* acquisition of mutex_ with the book's work, each onTrade call, the      *)
(* release.                                                                *)

MaxFeed == 4

MaxMoCycles == 2

(* the orders of the feed: bids at 2 and 3, offers at 3 *)
FeedOrders(n) ==
    {o \in [id : {n}, type : {"LIMIT"}, side : {"BUY", "SELL"}, price : {2, 3},
            quantity : {1}] : o.side = "SELL" => o.price = 3}

(* the time from one reading of the clock to the next, after the 200 ms    *)
(* sleep of MomentumTrader's worker                                        *)
MoSleeps == {200000, cooldown_us}

(* the onTrade calls of the onOrder call that thread t is in *)
CallDeliveries(t) == dispatch(thr[t].trades, sim.strategies_)

(* variant: onOrder does not wait for mutex_ *)
CanLock_always(t) == TRUE

(* std::lock_guard on mutex_ can be taken *)
CanLock(t) == sim.mutex_ = "free"

(* registerStrategy before the strategies are started *)
ThreadsRegister(s) ==
    /\ drv.main = "init"
    /\ s \in {"MomentumTrader", "ArbitrageTrader"}
    /\ RegisterStrategy(s)

(* Simulator::start with MomentumTrader registered *)
SimStart ==
    /\ drv.main = "init"
    /\ \E j \in 1..Len(sim.strategies_) : sim.strategies_[j] = "MomentumTrader"
    /\ mo' = [mo EXCEPT !.running_ = TRUE, !.worker = "loop"]
    /\ arb' = IF \E j \in 1..Len(sim.strategies_) : sim.strategies_[j] = "ArbitrageTrader"
              THEN [arb EXCEPT !.running_ = TRUE] ELSE arb
    /\ drv' = [drv EXCEPT !.main = "run", !.last = "start"]
    /\ UNCHANGED <<bookVars, mm, sim, thr>>

(* the feed thread reads an order and calls onOrder *)
FeedOrder(order) ==
    /\ drv.main = "run"
    /\ thr["feed"].pc = "idle"
    /\ drv.nfeed < MaxFeed
    /\ thr' = [thr EXCEPT !["feed"] = [@ EXCEPT !.pc = "wait", !.order = order,
                                                !.book = "ETH-USD"]]
    /\ sim' = [sim EXCEPT !.global_order_id = @ + 1]
    /\ drv' = [drv EXCEPT !.nfeed = @ + 1, !.last = "feed"]
    /\ UNCHANGED <<bookVars, mm, mo, arb>>

(* onOrder: mutex_ is taken, the book created if need be, the order added *)
Acquire(t) ==
    /\ thr[t].pc = "wait"
    /\ CanLock(t)
    /\ LET b == thr[t].book
           r == addOrder(books[b], thr[t].order, b, nops + 1)
       IN  /\ books' = [books EXCEPT ![b] = r.book]
           /\ call' = [op |-> "onOrder", book |-> b, order |-> thr[t].order,
                       trades |-> r.trades, steps |-> r.steps, ret |-> FALSE,
                       remaining |-> r.qty]
           /\ nops' = nops + 1
           /\ tradeLog' = [tradeLog EXCEPT ![b] = @ \o TradeIds(r.trades)]
           /\ sim' = [sim EXCEPT !.mutex_ = t, !.ticket = @ + 1, !.created = @ \cup {b}]
           /\ thr' = [thr EXCEPT ![t] = [@ EXCEPT !.pc = "dispatch", !.trades = r.trades,
                                                  !.next = 1, !.ticket = sim.ticket + 1]]
    /\ drv' = [drv EXCEPT !.last = "acquire"]
    /\ UNCHANGED <<mm, mo, arb>>

(* onOrder calls the next strategy->onTrade *)
BeginOnTrade(t) ==
    /\ thr[t].pc = "dispatch"
    /\ thr[t].next <= Len(CallDeliveries(t))
    /\ LET d == CallDeliveries(t)[thr[t].next]
       IN  sim' = [sim EXCEPT !.deliveries =
                       Append(@, [strategy |-> d.strategy, trade |-> d.trade,
                                  ticket |-> thr[t].ticket])]
    /\ thr' = [thr EXCEPT ![t] = [@ EXCEPT !.pc = "onTrade"]]
    /\ drv' = [drv EXCEPT !.last = "beginOnTrade"]
    /\ UNCHANGED <<bookVars, mm, mo, arb>>

(* the onTrade call runs.  When MomentumTrader latches, stop() joins the   *)
(* worker: from another thread the call waits for the worker to leave      *)
(* run(); from the worker itself join() throws std::system_error, which    *)
(* nothing catches, and the program is terminated.                         *)
EndOnTrade(t) ==
    /\ thr[t].pc = "onTrade"
    /\ LET d == CallDeliveries(t)[thr[t].next]
           st == onTrade([mm |-> mm, mo |-> mo, arb |-> arb], d)
           joins == d.strategy = "MomentumTrader" /\ MoJoins(mo, d.trade)
       IN  /\ mm' = st.mm
           /\ mo' = st.mo
           /\ arb' = st.arb
           /\ thr' = [thr EXCEPT ![t] = IF joins THEN [@ EXCEPT !.pc = "join"]
                                        ELSE [@ EXCEPT !.pc = "dispatch", !.next = @ + 1]]
           /\ drv' = [drv EXCEPT !.last = "onTrade", !.trade = d.trade,
                                  !.main = IF joins /\ t = "worker" THEN "terminated" ELSE @]
    /\ UNCHANGED <<bookVars, sim>>

(* worker_.join() returns in the thread that called stop() *)
JoinReturn(t) ==
    /\ thr[t].pc = "join"
    /\ t # "worker"
    /\ mo.worker = "exited"
    /\ mo' = [mo EXCEPT !.worker = "joined"]
    /\ thr' = [thr EXCEPT ![t] = [@ EXCEPT !.pc = "dispatch", !.next = @ + 1]]
    /\ drv' = [drv EXCEPT !.last = "joinReturn"]
    /\ UNCHANGED <<bookVars, mm, arb, sim>>

(* onOrder returns and releases mutex_.  The worker then finishes          *)
(* evaluateMomentum (cooldown, data_mutex_ released) and sleeps.           *)
Release(t, dt) ==
    /\ thr[t].pc = "dispatch"
    /\ thr[t].next > Len(CallDeliveries(t))
    /\ sim' = [sim EXCEPT !.mutex_ = "free"]
    /\ IF t = "worker"
       THEN /\ thr' = [thr EXCEPT ![t] = [@ EXCEPT !.pc = "idle"]]
            /\ mo' = [mo EXCEPT !.cooldown_end_ts_ = mo.now + cooldown_us,
                                !.data_mutex_ = "free", !.now = @ + dt,
                                !.cycles = @ + 1]
       ELSE /\ thr' = [thr EXCEPT ![t] = [@ EXCEPT !.pc = "md"]]
            /\ mo' = mo
    /\ drv' = [drv EXCEPT !.last = "release"]
    /\ UNCHANGED <<bookVars, mm, arb>>

(* the feed thread hands the order to MomentumTrader::onMarketData *)
FeedMarketData ==
    /\ thr["feed"].pc = "md"
    /\ mo.data_mutex_ = "free"
    /\ mo' = Mo_onMarketData(mo, thr["feed"].book, thr["feed"].order.price)
    /\ thr' = [thr EXCEPT !["feed"] = [@ EXCEPT !.pc = "idle"]]
    /\ drv' = [drv EXCEPT !.last = "onMarketData"]
    /\ UNCHANGED <<bookVars, mm, arb, sim>>

(* one turn of MomentumTrader::run: evaluateMomentum up to the call of the *)
(* submit callback, or to its end and the sleep when nothing is submitted  *)
WorkerCycle(dt) ==
    /\ thr["worker"].pc = "idle"
    /\ mo.worker = "loop"
    /\ mo.running_
    /\ mo.cycles < MaxMoCycles
    /\ mo.data_mutex_ = "free"
    /\ IF MoSubmits(mo, mo.now)
       THEN /\ thr' = [thr EXCEPT !["worker"] =
                          [@ EXCEPT !.pc = "wait", !.book = MoSymbol,
                                    !.order = MoOrder(mo, sim.global_order_id)]]
            /\ sim' = [sim EXCEPT !.global_order_id = @ + 1]
            /\ mo' = [mo EXCEPT !.data_mutex_ = "worker"]
       ELSE /\ mo' = [mo EXCEPT !.now = @ + dt, !.cycles = @ + 1]
            /\ UNCHANGED <<thr, sim>>
    /\ drv' = [drv EXCEPT !.last = "evaluateMomentum"]
    /\ UNCHANGED <<bookVars, mm, arb>>

(* MomentumTrader::run sees running_ false and returns *)
WorkerExit ==
    /\ thr["worker"].pc = "idle"
    /\ mo.worker = "loop"
    /\ ~mo.running_
    /\ mo' = [mo EXCEPT !.worker = "exited"]
    /\ drv' = [drv EXCEPT !.last = "moExit"]
    /\ UNCHANGED <<bookVars, mm, arb, sim, thr>>

NextThreads ==
    /\ drv.main # "terminated"
    /\ \/ \E s \in Strategies : ThreadsRegister(s)
       \/ SimStart
       \/ \E order \in FeedOrders(sim.global_order_id) : FeedOrder(order)
       \/ \E t \in Threads : Acquire(t)
       \/ \E t \in Threads : BeginOnTrade(t)
       \/ \E t \in Threads : EndOnTrade(t)
       \/ \E t \in Threads : JoinReturn(t)
       \/ \E t \in Threads : \E dt \in MoSleeps : Release(t, dt)
       \/ FeedMarketData
       \/ \E dt \in MoSleeps : WorkerCycle(dt)
       \/ WorkerExit

SpecThreads == InitStrat /\ [][NextThreads]_vars

----------------------------------------------------------------------------
(* ArbitrageTrader with the callbacks of main.cpp: the feed thread calls   *)
(* Simulator::onOrder and then onMarketData for every order, and the       *)
(* submit callback is Simulator::onOrder; the main thread starts and stops *)
(* the strategy.  The strategy may or may not be registered with the       *)
(* Simulator.  thr["feed"].pc is the position of the feed thread: "md"     *)
(* before onMarketData, "locked" past its test of running_, "submit"       *)
(* inside checkArbitrageOpportunity, "relock" in an onTrade that locks     *)
(* mutex_ while onMarketData holds it in the same thread.                  *)

MaxArbFeed == 4

(* the orders of the feed: bids of 1 at 0.16 and 0.17, offers of 1 or 2 at *)
(* 0.11                                                                    *)
ArbFeedOrders(n) ==
    {o \in [id : {n}, type : {"LIMIT"}, side : {"BUY", "SELL"}, price : {11, 16, 17},
            quantity : {1, 2}] :
        IF o.side = "BUY" THEN o.price >= 16 /\ o.quantity = 1 ELSE o.price = 11}

(* Simulator::onOrder run to its end by the feed thread: the book's work   *)
(* and the onTrade calls                                                   *)
ArbOnOrder(b, order) ==
    LET r == addOrder(books[b], order, b, nops + 1)
    IN  /\ books' = [books EXCEPT ![b] = r.book]
        /\ call' = [op |-> "onOrder", book |-> b, order |-> order, trades |-> r.trades,
                    steps |-> r.steps, ret |-> FALSE, remaining |-> r.qty]
        /\ nops' = nops + 1
        /\ tradeLog' = [tradeLog EXCEPT ![b] = @ \o TradeIds(r.trades)]

(* registerStrategy(ArbitrageTrader) before the start *)
ArbRegister ==
    /\ drv.main = "init"
    /\ RegisterStrategy("ArbitrageTrader")

(* ArbitrageTrader::start *)
ArbStart ==
    /\ drv.main = "init"
    /\ arb' = [arb EXCEPT !.running_ = TRUE]
    /\ drv' = [drv EXCEPT !.main = "run", !.last = "start"]
    /\ UNCHANGED <<bookVars, simVars, mm, mo>>

(* the feed thread reads an order and calls onOrder, which delivers the    *)
(* trades to the registered strategy                                       *)
ArbFeed(b, order) ==
    /\ drv.main \in {"run", "stopped"}
    /\ thr["feed"].pc = "idle"
    /\ drv.nfeed < MaxArbFeed
    /\ ArbOnOrder(b, order)
    /\ arb' = Deliver([mm |-> mm, mo |-> mo, arb |-> arb],
                      dispatch(call'.trades, sim.strategies_)).arb
    /\ sim' = [sim EXCEPT !.global_order_id = @ + 1, !.created = @ \cup {b}]
    /\ thr' = [thr EXCEPT !["feed"] = [@ EXCEPT !.pc = "md", !.order = order, !.book = b]]
    /\ drv' = [drv EXCEPT !.nfeed = @ + 1, !.last = "feed"]
    /\ UNCHANGED <<mm, mo>>

(* onMarketData: if (!running_) return; then mutex_ is taken *)
ArbMdEnter ==
    /\ thr["feed"].pc = "md"
    /\ thr' = [thr EXCEPT !["feed"] = [@ EXCEPT !.pc = IF arb.running_ THEN "locked"
                                                       ELSE "idle"]]
    /\ drv' = [drv EXCEPT !.last = "mdEnter"]
    /\ UNCHANGED <<bookVars, sim, mm, mo, arb>>

(* onMarketData under mutex_: the quote is recorded and                    *)
(* checkArbitrageOpportunity decides                                       *)
ArbMdRun ==
    /\ thr["feed"].pc = "locked"
    /\ LET m == Arb_onMarketData(arb, thr["feed"].book, thr["feed"].order)
       IN  arb' = [m EXCEPT !.pending = checkArbitrageOpportunity(m, sim.global_order_id),
                            !.submitted = <<>>]
    /\ thr' = [thr EXCEPT !["feed"] = [@ EXCEPT !.pc = "submit"]]
    /\ drv' = [drv EXCEPT !.last = "mdRun"]
    /\ UNCHANGED <<bookVars, sim, mm, mo>>

(* submit_(Order(global_order_id++, ...)): Simulator::onOrder in the same  *)
(* thread.  A trade is delivered to ArbitrageTrader::onTrade, which while  *)
(* running_ locks mutex_, held by this thread: the behaviour is undefined, *)
(* the thread blocks for ever or the lock throws and the program ends.     *)
ArbSubmit(outcome) ==
    /\ thr["feed"].pc = "submit"
    /\ arb.pending # <<>>
    /\ LET h == Head(arb.pending)
       IN  /\ ArbOnOrder(h.book, h.order)
           /\ arb' = [arb EXCEPT !.pending = Tail(@), !.submitted = Append(@, h)]
           /\ sim' = [sim EXCEPT !.global_order_id = @ + 1, !.created = @ \cup {h.book}]
    /\ IF /\ call'.trades # <<>>
          /\ arb.running_
          /\ \E j \in 1..Len(sim.strategies_) : sim.strategies_[j] = "ArbitrageTrader"
       THEN /\ thr' = [thr EXCEPT !["feed"] = [@ EXCEPT !.pc = "relock"]]
            /\ drv' = [drv EXCEPT !.last = "submit",
                                   !.main = IF outcome = "throws" THEN "terminated" ELSE @]
       ELSE /\ outcome = "blocks"
            /\ thr' = thr
            /\ drv' = [drv EXCEPT !.last = "submit"]
    /\ UNCHANGED <<mm, mo>>

(* checkArbitrageOpportunity and onMarketData return, mutex_ is released *)
ArbMdReturn ==
    /\ thr["feed"].pc = "submit"
    /\ arb.pending = <<>>
    /\ thr' = [thr EXCEPT !["feed"] = [@ EXCEPT !.pc = "idle"]]
    /\ drv' = [drv EXCEPT !.last = "mdReturn"]
    /\ UNCHANGED <<bookVars, sim, mm, mo, arb>>

(* ArbitrageTrader::stop from the main thread *)
ArbStop ==
    /\ drv.main = "run"
    /\ arb' = [arb EXCEPT !.running_ = FALSE]
    /\ drv' = [drv EXCEPT !.main = "stopped", !.last = "stop"]
    /\ UNCHANGED <<bookVars, simVars, mm, mo>>

NextArb ==
    /\ drv.main # "terminated"
    /\ \/ ArbRegister
       \/ ArbStart
       \/ \E b \in Instruments : \E order \in ArbFeedOrders(sim.global_order_id) :
              ArbFeed(b, order)
       \/ ArbMdEnter
       \/ ArbMdRun
       \/ \E outcome \in {"blocks", "throws"} : ArbSubmit(outcome)
       \/ ArbMdReturn
       \/ ArbStop

SpecArb == InitStrat /\ [][NextArb]_vars

----------------------------------------------------------------------------
(* The orders that reach the Simulator when MarketMaker runs beside the    *)
(* feed, both with the callbacks of main.cpp (Simulator::onOrder).         *)
(* MarketMaker quotes from what its own book shows; it is not registered   *)
(* with the Simulator.  call holds the last operation and, as a ghost,     *)
(* created: the source and id of every new order (quantity > 0) handed to  *)
(* onOrder so far.                                                         *)

MaxIdsFeed == 2

(* the orders of the feed, in MarketMaker's unit of 0.005: a bid at 1.00,  *)
(* an offer at 1.02                                                        *)
IdsFeedOrders(n) ==
    {[id |-> n, type |-> "LIMIT", side |-> "BUY", price |-> 200, quantity |-> 1],
     [id |-> n, type |-> "LIMIT", side |-> "SELL", price |-> 204, quantity |-> 1]}

(* onOrder for each order of the sequence in turn: the book and the ids of *)
(* the trades it emitted                                                   *)
RECURSIVE OnOrderAll(_, _, _, _)
OnOrderAll(book, orders, instrument, n) ==
    IF orders = <<>> THEN [book |-> book, trade_ids |-> <<>>]
    ELSE LET r == addOrder(book, Head(orders), instrument, n)
             rest == OnOrderAll(r.book, Tail(orders), instrument, n + 1)
         IN  [book |-> rest.book, trade_ids |-> TradeIds(r.trades) \o rest.trade_ids]

(* the new orders among those handed to onOrder, as entries of created *)
CreatedBy(source, orders) ==
    LET new == SelectSeq(orders, LAMBDA o : o.quantity > 0)
    IN  [i \in 1..Len(new) |-> [source |-> source, id |-> new[i].id]]

InitIds ==
    /\ books = [b \in Instruments |-> NewBook]
    /\ call = [op |-> "none", created |-> <<>>]
    /\ nops = 0
    /\ tradeLog = [b \in Instruments |-> <<>>]
    /\ \E max_loss \in MaxLossChoices : StratInit(max_loss)

(* MarketMaker::start *)
IdsStart ==
    /\ drv.main = "init"
    /\ mm' = [mm EXCEPT !.running_ = TRUE, !.worker = "check"]
    /\ drv' = [drv EXCEPT !.main = "run", !.last = "start"]
    /\ UNCHANGED <<bookVars, simVars, mo, arb>>

(* the feed thread: parseLine takes the id from Order::global_order_id,    *)
(* the callback hands the order to Simulator::onOrder                      *)
IdsFeed(order) ==
    /\ drv.main = "run"
    /\ drv.nfeed < MaxIdsFeed
    /\ LET r == OnOrderAll(books[MMSymbol], <<order>>, MMSymbol, nops + 1)
       IN  /\ books' = [books EXCEPT ![MMSymbol] = r.book]
           /\ tradeLog' = [tradeLog EXCEPT ![MMSymbol] = @ \o r.trade_ids]
    /\ nops' = nops + 1
    /\ call' = [op |-> "feed", created |-> call.created \o CreatedBy("feed", <<order>>)]
    /\ sim' = [sim EXCEPT !.global_order_id = @ + 1, !.created = @ \cup {MMSymbol}]
    /\ drv' = [drv EXCEPT !.nfeed = @ + 1, !.last = "feed"]
    /\ UNCHANGED <<thr, mm, mo, arb>>

(* one iteration of MarketMaker::run: placeQuotes, whose orders go to      *)
(* Simulator::onOrder one by one, then the sleep                           *)
IdsQuote(top, dt) ==
    /\ drv.main = "run"
    /\ mm.running_
    /\ mm.cycles < MaxCycles
    /\ LET m == MM_precheck(mm)
           q == IF MMBreach(mm) THEN [m EXCEPT !.submitted = <<>>]
                ELSE MM_quote(m, top, top, mm.now)
           r == OnOrderAll(books[MMSymbol], q.submitted, MMSymbol, nops + 1)
       IN  /\ mm' = [q EXCEPT !.now = @ + dt, !.cycles = @ + 1]
           /\ books' = [books EXCEPT ![MMSymbol] = r.book]
           /\ tradeLog' = [tradeLog EXCEPT ![MMSymbol] = @ \o r.trade_ids]
           /\ nops' = nops + Len(q.submitted)
           /\ call' = [op |-> "placeQuotes",
                       created |-> call.created \o CreatedBy("MarketMaker", q.submitted)]
           /\ sim' = [sim EXCEPT !.created = IF q.submitted = <<>> THEN @
                                             ELSE @ \cup {MMSymbol}]
    /\ drv' = [drv EXCEPT !.last = "mmQuote"]
    /\ UNCHANGED <<thr, mo, arb>>

NextIds ==
    \/ IdsStart
    \/ \E order \in IdsFeedOrders(sim.global_order_id) : IdsFeed(order)
    \/ \E top \in Tops, dt \in Sleeps : IdsQuote(top, dt)

SpecIds == InitIds /\ [][NextIds]_vars

----------------------------------------------------------------------------
(* MomentumTrader as its tests drive it: onMarketData is called from       *)
(* outside, the worker runs evaluateMomentum, and the submit callback      *)
(* collects the order.  call holds the last operation with, as ghosts,     *)
(* hist (every price of the symbol handed to onMarketData so far) and      *)
(* short (the evaluateMomentum calls that found fewer than 3 prices) and   *)
(* sent (the times now at which an order was submitted).                   *)

MaxMd == 7

MaxMomCycles == 3

MdPrices == {1, 2}

MomCall(op, hist, order, short, sent) ==
    [op |-> op, hist |-> hist, order |-> order, short |-> short, sent |-> sent]

InitMomentum ==
    /\ books = [b \in Instruments |-> NewBook]
    /\ call = MomCall("none", <<>>, NoOrder, 0, <<>>)
    /\ nops = 0
    /\ tradeLog = [b \in Instruments |-> <<>>]
    /\ \E max_loss \in MaxLossChoices : StratInit(max_loss)

(* MomentumTrader::start *)
MomStart ==
    /\ drv.main = "init"
    /\ mo' = [mo EXCEPT !.running_ = TRUE, !.worker = "loop"]
    /\ drv' = [drv EXCEPT !.main = "run", !.last = "start"]
    /\ UNCHANGED <<bookVars, simVars, mm, arb>>

(* onMarketData(order) from the thread that feeds the strategy *)
MomMarketData(instrument, price) ==
    /\ drv.nfeed < MaxMd
    /\ mo' = Mo_onMarketData(mo, instrument, price)
    /\ call' = MomCall("onMarketData",
                       IF instrument = MoSymbol THEN Append(call.hist, price) ELSE call.hist,
                       NoOrder, call.short, call.sent)
    /\ drv' = [drv EXCEPT !.nfeed = @ + 1, !.last = "onMarketData"]
    /\ UNCHANGED <<books, nops, tradeLog, simVars, mm, arb>>

(* one turn of MomentumTrader::run: evaluateMomentum, then the sleep *)
MomCycle(dt) ==
    /\ mo.worker = "loop"
    /\ mo.running_
    /\ mo.cycles < MaxMomCycles
    /\ LET submits == MoSubmits(mo, mo.now)
           short == IF Len(mo.recent_prices_) < 3 THEN call.short + 1 ELSE call.short
       IN  /\ mo' = [mo EXCEPT !.cooldown_end_ts_ = IF submits THEN mo.now + cooldown_us ELSE @,
                                !.now = @ + dt, !.cycles = @ + 1]
           /\ sim' = [sim EXCEPT !.global_order_id = IF submits THEN @ + 1 ELSE @]
           /\ call' = MomCall("evaluateMomentum", call.hist,
                              IF submits THEN MoOrder(mo, sim.global_order_id) ELSE NoOrder,
                              short,
                              IF submits THEN Append(call.sent, mo.now) ELSE call.sent)
    /\ drv' = [drv EXCEPT !.last = "evaluateMomentum"]
    /\ UNCHANGED <<books, nops, tradeLog, thr, mm, arb>>

NextMomentum ==
    \/ MomStart
    \/ \E instrument \in Instruments, price \in MdPrices : MomMarketData(instrument, price)
    \/ \E dt \in MoSleeps : MomCycle(dt)

SpecMomentum == InitMomentum /\ [][NextMomentum]_vars

----------------------------------------------------------------------------
(* ArbitrageTrader as its tests drive it: onMarketData and onTrade are     *)
(* called from one thread, before start, while running and after stop,     *)
(* and the submit callback collects the orders.  call holds the last       *)
(* operation and whether running_ was set when it was called.              *)

MaxArbCalls == 5

MaxArbTrades == 2

(* quotes handed to onMarketData: bids at 0.16 and 0.17, offers at 0.10   *)
(* and 0.11                                                                *)
ArbCallOrders(n) ==
    {o \in [id : {n}, type : {"LIMIT"}, side : {"BUY", "SELL"}, price : {10, 11, 16, 17},
            quantity : {1}] :
        IF o.side = "BUY" THEN o.price >= 16 ELSE o.price <= 11}

(* variant: onMarketData does not test running_ *)
Arb_onMarketData_unguarded(m, instrument, order, id) ==
    LET m1 == Arb_onMarketData(m, instrument, order)
    IN  [m1 EXCEPT !.submitted = checkArbitrageOpportunity(m1, id)]

(* onMarketData as one call: the test of running_, the quote, the check,   *)
(* the orders handed to the submit callback                                *)
Arb_onMarketData_call(m, instrument, order, id) ==
    IF ~m.running_ THEN [m EXCEPT !.submitted = <<>>]
    ELSE LET m1 == Arb_onMarketData(m, instrument, order)
         IN  [m1 EXCEPT !.submitted = checkArbitrageOpportunity(m1, id)]

InitArbCalls ==
    /\ books = [b \in Instruments |-> NewBook]
    /\ call = [op |-> "none", running |-> FALSE]
    /\ nops = 0
    /\ tradeLog = [b \in Instruments |-> <<>>]
    /\ \E max_loss \in MaxLossChoices : StratInit(max_loss)

(* onMarketData(order) *)
ArbCallsMarketData(instrument, order) ==
    /\ drv.nfeed < MaxArbCalls
    /\ arb' = Arb_onMarketData_call(arb, instrument, order, sim.global_order_id + 1)
    /\ sim' = [sim EXCEPT !.global_order_id = @ + 1 + Len(arb'.submitted)]
    /\ call' = [op |-> "onMarketData", running |-> arb.running_]
    /\ drv' = [drv EXCEPT !.nfeed = @ + 1, !.last = "onMarketData"]
    /\ UNCHANGED <<books, nops, tradeLog, thr, mm, mo>>

(* onTrade(trade) *)
ArbCallsTrade(trade) ==
    /\ drv.ntrades < MaxArbTrades
    /\ arb' = [Arb_onTrade(arb, trade) EXCEPT !.submitted = <<>>]
    /\ call' = [op |-> "onTrade", running |-> arb.running_]
    /\ drv' = [drv EXCEPT !.ntrades = @ + 1, !.last = "onTrade"]
    /\ UNCHANGED <<books, nops, tradeLog, simVars, mm, mo>>

NextArbCalls ==
    \/ ArbStart
    \/ ArbStop
    \/ \E instrument \in Instruments : \E order \in ArbCallOrders(sim.global_order_id) :
           ArbCallsMarketData(instrument, order)
    \/ \E trade \in StratTrades : ArbCallsTrade(trade)

SpecArbCalls == InitArbCalls /\ [][NextArbCalls]_vars

----------------------------------------------------------------------------
(* MarketMaker between two threads: its worker runs placeQuotes while the  *)
(* thread that feeds the Simulator calls onTrade.  thr["worker"].pc is the *)
(* worker's position in placeQuotes ("risk" inside the block under         *)
(* pnl_mutex_, "slots" at the lines that read and write active_orders_ and *)
(* filled_quantity_, "metrics" at the line that reads inventory_ and       *)
(* realized_pnl_), thr["feed"].pc the position in onTrade ("wait" before   *)
(* the lock_guard, "account" under it).  mm.pnl_mutex_ is the owner of the *)
(* mutex.  Two threads at unordered accesses to one object are a data      *)
(* race, after which the program may do anything: it goes on or it ends.   *)

MaxRaceCycles == 2

MaxRaceTrades == 2

(* the worker is at its accesses to the state that onTrade accounts in    *)
(* while onTrade is at its own                                             *)
Racing == thr["worker"].pc \in {"slots", "metrics"} /\ thr["feed"].pc = "account"

(* run: while (running_) placeQuotes(); the lock_guard of the risk block *)
RaceWorkerLock ==
    /\ drv.main = "run"
    /\ thr["worker"].pc = "idle"
    /\ mm.running_
    /\ mm.cycles < MaxRaceCycles
    /\ mm.pnl_mutex_ = "free"
    /\ mm' = [mm EXCEPT !.pnl_mutex_ = "worker"]
    /\ thr' = [thr EXCEPT !["worker"] = [@ EXCEPT !.pc = "risk"]]
    /\ drv' = [drv EXCEPT !.last = "mmLock"]
    /\ UNCHANGED <<bookVars, sim, mo, arb>>

(* the risk block; its end releases pnl_mutex_ *)
RaceWorkerRisk(dt) ==
    /\ thr["worker"].pc = "risk"
    /\ LET m == [MM_precheck(mm) EXCEPT !.pnl_mutex_ = "free", !.submitted = <<>>]
       IN  IF MMBreach(mm)
           THEN /\ mm' = [m EXCEPT !.now = @ + dt, !.cycles = @ + 1]
                /\ thr' = [thr EXCEPT !["worker"] = [@ EXCEPT !.pc = "idle"]]
           ELSE /\ mm' = m
                /\ thr' = [thr EXCEPT !["worker"] = [@ EXCEPT !.pc = "slots"]]
    /\ drv' = [drv EXCEPT !.last = "mmPrecheck"]
    /\ UNCHANGED <<bookVars, sim, mo, arb>>

(* the mid, cancel_if_stale, the cancellations and the new quotes, without *)
(* pnl_mutex_; without a mid placeQuotes returns and the worker sleeps     *)
RaceWorkerSlots(top, dt, outcome) ==
    /\ thr["worker"].pc = "slots"
    /\ outcome = "ends" => Racing
    /\ LET m == MM_quote(mm, top, top, mm.now)
       IN  IF computeMidPrice(top) < 0
           THEN /\ mm' = [m EXCEPT !.now = @ + dt, !.cycles = @ + 1]
                /\ thr' = [thr EXCEPT !["worker"] = [@ EXCEPT !.pc = "idle"]]
           ELSE /\ mm' = m
                /\ thr' = [thr EXCEPT !["worker"] = [@ EXCEPT !.pc = "metrics"]]
    /\ drv' = [drv EXCEPT !.last = "mmQuote",
                          !.main = IF outcome = "ends" THEN "terminated" ELSE @]
    /\ UNCHANGED <<bookVars, sim, mo, arb>>

(* the metrics line reads inventory_ and realized_pnl_ without pnl_mutex_; *)
(* placeQuotes returns and the worker sleeps                               *)
RaceWorkerMetrics(dt, outcome) ==
    /\ thr["worker"].pc = "metrics"
    /\ outcome = "ends" => Racing
    /\ mm' = [mm EXCEPT !.now = @ + dt, !.cycles = @ + 1]
    /\ thr' = [thr EXCEPT !["worker"] = [@ EXCEPT !.pc = "idle"]]
    /\ drv' = [drv EXCEPT !.last = "mmMetrics",
                          !.main = IF outcome = "ends" THEN "terminated" ELSE @]
    /\ UNCHANGED <<bookVars, sim, mo, arb>>

(* onTrade up to its lock_guard: the instrument test and total_trades_++ *)
RaceTradeEnter(trade) ==
    /\ drv.main = "run"
    /\ thr["feed"].pc = "idle"
    /\ drv.ntrades < MaxRaceTrades
    /\ IF trade.instrument # MMSymbol
       THEN /\ mm' = mm
            /\ thr' = thr
       ELSE /\ mm' = [mm EXCEPT !.total_trades_ = @ + 1]
            /\ thr' = [thr EXCEPT !["feed"] = [@ EXCEPT !.pc = "wait"]]
    /\ drv' = [drv EXCEPT !.trade = trade, !.ntrades = @ + 1, !.last = "onTradeEnter"]
    /\ UNCHANGED <<bookVars, sim, mo, arb>>

(* the lock_guard of onTrade *)
RaceTradeLock ==
    /\ thr["feed"].pc = "wait"
    /\ mm.pnl_mutex_ = "free"
    /\ mm' = [mm EXCEPT !.pnl_mutex_ = "feed"]
    /\ thr' = [thr EXCEPT !["feed"] = [@ EXCEPT !.pc = "account"]]
    /\ drv' = [drv EXCEPT !.last = "onTradeLock"]
    /\ UNCHANGED <<bookVars, sim, mo, arb>>

(* onTrade under pnl_mutex_: fills, drawdown, risk test; the return        *)
(* releases the mutex                                                      *)
RaceTradeAccount(outcome) ==
    /\ thr["feed"].pc = "account"
    /\ outcome = "ends" => Racing
    /\ mm' = [MM_onTrade(mm, drv.trade) EXCEPT !.total_trades_ = mm.total_trades_,
                                                !.pnl_mutex_ = "free"]
    /\ thr' = [thr EXCEPT !["feed"] = [@ EXCEPT !.pc = "idle"]]
    /\ drv' = [drv EXCEPT !.last = "onTrade", !.main = IF outcome = "ends" THEN "terminated" ELSE @]
    /\ UNCHANGED <<bookVars, sim, mo, arb>>

NextMMRace ==
    /\ drv.main # "terminated"
    /\ \/ IdsStart
       \/ RaceWorkerLock
       \/ \E dt \in Sleeps : RaceWorkerRisk(dt)
       \/ \E top \in Tops, dt \in Sleeps, outcome \in {"runs", "ends"} :
              RaceWorkerSlots(top, dt, outcome)
       \/ \E dt \in Sleeps, outcome \in {"runs", "ends"} : RaceWorkerMetrics(dt, outcome)
       \/ \E trade \in StratTrades : RaceTradeEnter(trade)
       \/ RaceTradeLock
       \/ \E outcome \in {"runs", "ends"} : RaceTradeAccount(outcome)

SpecMMRace == InitStrat /\ [][NextMMRace]_vars

----------------------------------------------------------------------------
(* Vocabulary of the properties *)

(* all entries of one side of a book, as a set *)
SideEntries(m) == UNION {{m[p][j] : j \in 1..Len(m[p])} : p \in DOMAIN m}

RestingEntries(book) == SideEntries(book.bids) \cup SideEntries(book.asks)

RestingIds(book) == {e.id : e \in RestingEntries(book)}

RECURSIVE SumQty(_, _)
SumQty(trades, k) == IF k = 0 THEN 0 ELSE trades[k].quantity + SumQty(trades, k - 1)

TradedQty == SumQty(call.trades, Len(call.trades))

(* o has priority over r for an aggressor of side aggSide *)
Better(o, r, aggSide) ==
    \/ aggSide = "BUY" /\ o.price < r.price
    \/ aggSide = "SELL" /\ o.price > r.price
    \/ o.price = r.price /\ o.arrival < r.arrival

----------------------------------------------------------------------------
(* C1: matching follows price-time priority: at every match of an          *)
(* addOrder call the order that trades is resting on the opposite side,    *)
(* and no order resting there at that moment has a better price, or the    *)
(* same price and an earlier insertion.                                    *)
C1_PriceTimePriority ==
    call.op = "addOrder" =>
        \A i \in 1..Len(call.steps) :
            LET s == call.steps[i] IN
            /\ s.resting \in SideEntries(s.opp)
            /\ \A o \in SideEntries(s.opp) : ~Better(o, s.resting, call.order.side)

(* an aggressor has swept a level that held two orders, the older one first *)
C1_Witness ==
    /\ call.op = "addOrder"
    /\ Len(call.steps) = 2
    /\ call.steps[1].resting.price = call.steps[2].resting.price
    /\ call.steps[1].resting.arrival < call.steps[2].resting.arrival
    /\ call.steps[1].resting.id # call.steps[2].resting.id

(* C2: the price of every trade is the price of the resting order it       *)
(* matched, not the aggressor's.                                           *)
C2_TradeAtRestingPrice ==
    call.op = "addOrder" =>
        /\ Len(call.trades) = Len(call.steps)
        /\ \A i \in 1..Len(call.trades) :
               call.trades[i].price = call.steps[i].resting.price

(* a LIMIT aggressor traded at a resting price different from its own *)
C2_Witness ==
    /\ call.op = "addOrder"
    /\ call.order.type = "LIMIT"
    /\ Len(call.trades) > 0
    /\ call.trades[1].quantity > 0
    /\ call.trades[1].price # call.order.price

(* the trades of the last call move quantity between two different orders *)
ProperTrades ==
    \A i \in 1..Len(call.trades) :
        /\ call.trades[i].quantity > 0
        /\ call.trades[i].buy_order_id # call.trades[i].sell_order_id

(* C3: a LIMIT aggressor never trades through its limit: every trade of a  *)
(* LIMIT BUY has price <= its limit, every trade of a LIMIT SELL has       *)
(* price >= its limit.  Stated for the calls whose trades all have         *)
(* positive quantity and distinct buy and sell ids.                        *)
C3_NoTradeThroughLimit ==
    (call.op = "addOrder" /\ call.order.type = "LIMIT" /\ ProperTrades) =>
        \A i \in 1..Len(call.trades) :
            /\ call.order.side = "BUY" => call.trades[i].price <= call.order.price
            /\ call.order.side = "SELL" => call.trades[i].price >= call.order.price

(* C4: the unfilled remainder of a partly filled crossing LIMIT order      *)
(* rests at its limit price with quantity = original - traded, reachable   *)
(* through the best bid/ask of its side and the id index.  Stated for the  *)
(* calls whose trades all have positive quantity and distinct ids.         *)
C4_ResidualRests ==
    (/\ call.op = "addOrder"
     /\ ProperTrades
     /\ call.order.type = "LIMIT"
     /\ Len(call.trades) > 0
     /\ TradedQty < call.order.quantity) =>
        LET book == books[call.book]
            own == book[OwnSide(call.order)]
        IN  /\ call.order.price \in DOMAIN own
            /\ \E j \in 1..Len(own[call.order.price]) :
                   /\ own[call.order.price][j].id = call.order.id
                   /\ own[call.order.price][j].quantity = call.order.quantity - TradedQty
            /\ call.order.id \in DOMAIN book.orders_
            /\ getBest(book, OwnSide(call.order)) # None

(* C5: a MARKET order never rests: addOrder of a MARKET order inserts no   *)
(* entry in either side or in the id index, whether it was filled fully,   *)
(* partly or not at all; if no order with its id was resting before the    *)
(* call, none is after it.  Its unfilled quantity goes nowhere.            *)
C5_MarketStep ==
    LET c == call'
        pre == books[c.book]
        post == books'[c.book]
    IN  (c.op = "addOrder" /\ c.order.type = "MARKET") =>
            /\ \A e \in RestingEntries(post) : e.arrival # nops'
            /\ \A i \in DOMAIN post.orders_ : post.orders_[i].arrival # nops'
            /\ DOMAIN post.orders_ \subseteq DOMAIN pre.orders_
            /\ c.order.id \notin RestingIds(pre) => c.order.id \notin RestingIds(post)
            /\ Cardinality(RestingEntries(post)) <= Cardinality(RestingEntries(pre))

C5_MarketNeverRests == [][C5_MarketStep]_vars

(* a MARKET order was filled partly and its id is nowhere in the book *)
C5_Witness ==
    /\ call.op = "addOrder"
    /\ call.order.type = "MARKET"
    /\ TradedQty > 0
    /\ TradedQty < call.order.quantity
    /\ call.order.id \notin RestingIds(books[call.book])
    /\ call.order.id \notin DOMAIN books[call.book].orders_

(* the claim's own words for "does not cross" *)
NotCrossing(book, order) ==
    \/ order.side = "BUY" /\ (getBestAsk(book) = None \/ order.price < getBestAsk(book).price)
    \/ order.side = "SELL" /\ (getBestBid(book) = None \/ order.price > getBestBid(book).price)

(* C6: addOrder of a LIMIT order that does not cross emits no trade and    *)
(* appends the order at the tail of the queue of its price level on its    *)
(* own side; every other level, the other side, the other entries of the   *)
(* id index and next_trade_id_ are unchanged.                              *)
C6_RestStep ==
    LET c == call'
        pre == books[c.book]
        post == books'[c.book]
        own == OwnSide(c.order)
        opp == OppSide(c.order)
        p == c.order.price
        old == IF p \in DOMAIN pre[own] THEN pre[own][p] ELSE <<>>
    IN  (c.op = "addOrder" /\ c.order.type = "LIMIT" /\ NotCrossing(pre, c.order)) =>
            /\ c.trades = <<>>
            /\ DOMAIN post[own] = DOMAIN pre[own] \cup {p}
            /\ Len(post[own][p]) = Len(old) + 1
            /\ \A j \in 1..Len(old) : post[own][p][j] = old[j]
            /\ LET e == post[own][p][Len(old) + 1]
               IN  /\ e.id = c.order.id
                   /\ e.side = c.order.side
                   /\ e.price = c.order.price
                   /\ e.quantity = c.order.quantity
                   /\ c.order.id \in DOMAIN post.orders_
                   /\ post.orders_[c.order.id] = e
            /\ \A x \in DOMAIN pre[own] \ {p} : post[own][x] = pre[own][x]
            /\ post[opp] = pre[opp]
            /\ DOMAIN post.orders_ = DOMAIN pre.orders_ \cup {c.order.id}
            /\ \A i \in DOMAIN pre.orders_ \ {c.order.id} : post.orders_[i] = pre.orders_[i]
            /\ post.next_trade_id_ = pre.next_trade_id_

C6_NonCrossingLimitRests == [][C6_RestStep]_vars

(* a non-crossing LIMIT order joined a level behind an older order while   *)
(* the opposite side held liquidity                                        *)
C6_Witness ==
    /\ call.op = "addOrder"
    /\ call.order.type = "LIMIT"
    /\ call.order.quantity > 0
    /\ call.trades = <<>>
    /\ LET book == books[call.book]
           own == book[OwnSide(call.order)]
       IN  /\ DOMAIN book[OppSide(call.order)] # {}
           /\ call.order.price \in DOMAIN own
           /\ Len(own[call.order.price]) = 2
           /\ own[call.order.price][2].arrival = nops
           /\ own[call.order.price][1].id # call.order.id

(* quantity traded in the first k steps against the entry inserted by call a *)
RECURSIVE SumQtyAgainst(_, _, _)
SumQtyAgainst(steps, k, a) ==
    IF k = 0 THEN 0
    ELSE (IF steps[k].resting.arrival = a THEN steps[k].trade.quantity ELSE 0)
         + SumQtyAgainst(steps, k - 1, a)

(* C7: matching conserves quantity: every trade's quantity is the minimum  *)
(* of the aggressor's remaining quantity and the front resting order's     *)
(* quantity before the match; each resting order loses exactly what was    *)
(* traded against it and is removed when nothing is left of it; the trades *)
(* of one call sum to at most the aggressor's quantity.                    *)
C7_ConserveStep ==
    LET c == call'
        pre == books[c.book]
        post == books'[c.book]
        opp == OppSide(c.order)
        hit(e) == \E i \in 1..Len(c.steps) : c.steps[i].resting.arrival = e.arrival
        got(e) == SumQtyAgainst(c.steps, Len(c.steps), e.arrival)
    IN  c.op = "addOrder" =>
            /\ Len(c.steps) = Len(c.trades)
            /\ \A i \in 1..Len(c.trades) :
                   /\ c.steps[i].trade = c.trades[i]
                   /\ c.steps[i].resting \in SideEntries(pre[opp])
                   /\ c.trades[i].quantity =
                          Min(c.order.quantity - SumQty(c.trades, i - 1),
                              c.steps[i].resting.quantity)
            /\ SumQty(c.trades, Len(c.trades)) <= c.order.quantity
            /\ c.remaining = c.order.quantity - SumQty(c.trades, Len(c.trades))
            /\ \A e \in SideEntries(pre[opp]) :
                   /\ got(e) <= e.quantity
                   /\ IF hit(e) /\ got(e) = e.quantity
                      THEN \A f \in SideEntries(post[opp]) : f.arrival # e.arrival
                      ELSE [e EXCEPT !.quantity = e.quantity - got(e)] \in SideEntries(post[opp])
            /\ Cardinality(SideEntries(post[opp])) <= Cardinality(SideEntries(pre[opp]))

C7_QuantityConserved == [][C7_ConserveStep]_vars

(* a resting order was filled partly: the aggressor took less than it held *)
C7_Witness ==
    /\ call.op = "addOrder"
    /\ Len(call.steps) > 0
    /\ LET s == call.steps[Len(call.steps)]
       IN  /\ s.trade.quantity > 0
           /\ s.trade.quantity < s.resting.quantity
           /\ [s.resting EXCEPT !.quantity = @ - s.trade.quantity]
                  \in SideEntries(books[call.book][OppSide(call.order)])

(* C8: every trade a book emits has quantity > 0 *)
C8_TradeQuantityPositive ==
    \A i \in 1..Len(call.trades) : call.trades[i].quantity > 0

(* C9: the k-th trade a book emits over its lifetime has trade_id = k, in  *)
(* each book on its own.                                                   *)
C9_TradeIdsCount ==
    \A b \in Instruments :
        \A k \in 1..Len(tradeLog[b]) : tradeLog[b][k] = k

(* both books have emitted trades, one of them in two different calls *)
C9_Witness ==
    /\ Len(tradeLog["ETH-USD"]) >= 2
    /\ Len(tradeLog["BTC-USD"]) >= 1

(* C10: after cancelOrder(id) has returned true, id is in no queue of      *)
(* either side and not in the id index, and no level is left with an empty *)
(* queue; cancelOrder returns true exactly when id was resting before.     *)
C10_CancelStep ==
    LET c == call'
        pre == books[c.book]
        post == books'[c.book]
    IN  c.op = "cancelOrder" =>
            /\ c.ret <=> c.order.id \in RestingIds(pre)
            /\ c.ret =>
                   /\ c.order.id \notin RestingIds(post)
                   /\ c.order.id \notin DOMAIN post.orders_
                   /\ \A p \in DOMAIN post.bids : post.bids[p] # <<>>
                   /\ \A p \in DOMAIN post.asks : post.asks[p] # <<>>

C10_CancelRemovesId == [][C10_CancelStep]_vars

(* C11: cancelOrder of an id that is not resting returns false and leaves  *)
(* bids, asks, the id index and next_trade_id_ unchanged.                  *)
C11_UnknownStep ==
    LET c == call'
    IN  (c.op = "cancelOrder" /\ c.order.id \notin RestingIds(books[c.book])) =>
            /\ c.ret = FALSE
            /\ books'[c.book] = books[c.book]
            /\ tradeLog' = tradeLog

C11_CancelUnknownNoEffect == [][C11_UnknownStep]_vars

(* cancelOrder has refused an id while other orders were resting *)
C11_Witness ==
    /\ call.op = "cancelOrder"
    /\ call.ret = FALSE
    /\ RestingEntries(books[call.book]) # {}
    /\ DOMAIN books[call.book].orders_ # {}
    /\ call.order.id \notin DOMAIN books[call.book].orders_

(* the queues of a book that hold an entry with the id, as <<side, price>> *)
QueuesWith(book, id) ==
    {<<"bids", p>> : p \in LevelsWith(book.bids, id)}
        \cup {<<"asks", p>> : p \in LevelsWith(book.asks, id)}

(* C12: in every reachable state an order id appears in exactly one        *)
(* price-level queue if and only if it is a key of the id index orders_.   *)
C12_IndexMatchesQueues ==
    \A b \in Instruments :
        \A id \in RestingIds(books[b]) \cup DOMAIN books[b].orders_ :
            (Cardinality(QueuesWith(books[b], id)) = 1) <=> (id \in DOMAIN books[b].orders_)

RECURSIVE SumEntries(_)
SumEntries(S) ==
    IF S = {} THEN 0
    ELSE LET e == CHOOSE x \in S : TRUE IN e.quantity + SumEntries(S \ {e})

RECURSIVE SumIndex(_, _)
SumIndex(idx, K) ==
    IF K = {} THEN 0
    ELSE LET i == CHOOSE x \in K : TRUE IN idx[i].quantity + SumIndex(idx, K \ {i})

(* every resting id rests once and the index holds exactly the resting ids *)
IdsRestOnce(book) ==
    /\ \A e, f \in RestingEntries(book) : e.id = f.id => e = f
    /\ DOMAIN book.orders_ = RestingIds(book)

(* C13: the quantities of the resting orders sum to the quantities the id  *)
(* index records for them.  Stated for the states in which every resting   *)
(* id rests once and the index holds exactly the resting ids.              *)
C13_IndexQuantities ==
    \A b \in Instruments :
        IdsRestOnce(books[b]) =>
            SumEntries(RestingEntries(books[b]))
                = SumIndex(books[b].orders_, DOMAIN books[b].orders_)


----------------------------------------------------------------------------
(* C16: for each strategy, once risk_violated is true it is never false    *)
(* again, whatever on_trade calls, worker cycles and stops follow.         *)
C16_LatchStep ==
    /\ mm.risk_violated_ => mm'.risk_violated_
    /\ mo.risk_violated_ => mo'.risk_violated_
    /\ arb.risk_violated_ => arb'.risk_violated_

C16_RiskLatchPermanent == [][C16_LatchStep]_vars

(* C18: after MarketMaker's onTrade has processed a trade on its symbol,   *)
(* realized_pnl <= max_loss or |inventory| > inventory_limit imply that    *)
(* risk_violated is true and running is false; when neither holds onTrade  *)
(* has left risk_violated as it was.                                       *)
C18_OnTradeStep ==
    (drv'.last = "onTrade" /\ drv'.trade.instrument = MMSymbol) =>
        IF mm'.realized_pnl_ <= mm'.max_loss_ \/ Abs(mm'.inventory_) > 10
        THEN mm'.risk_violated_ /\ ~mm'.running_
        ELSE mm'.risk_violated_ = mm.risk_violated_

C18_MarketMakerLatches == [][C18_OnTradeStep]_vars

(* onTrade has just latched on the loss limit exactly, with the inventory  *)
(* inside its limit                                                        *)
C18_Witness ==
    /\ drv.last = "onTrade"
    /\ drv.trade.instrument = MMSymbol
    /\ mm.realized_pnl_ = mm.max_loss_
    /\ Abs(mm.inventory_) <= 10
    /\ mm.risk_violated_
    /\ mm.total_trades_ > 0

(* the quotes (orders of positive quantity) among the orders that the      *)
(* current call of placeQuotes has submitted                               *)
QuotesSubmitted(m) == {i \in 1..Len(m.submitted) : m.submitted[i].quantity > 0}

(* C19: a quoting cycle that begins after onTrade has set MarketMaker's    *)
(* risk latch submits no quote, whatever trades have arrived since.        *)
C19_NoQuoteAfterLatch == mm.cycle_after_latch => QuotesSubmitted(mm) = {}

DrawdownOk(m) ==
    /\ m.max_drawdown_ >= 0
    /\ m.max_drawdown_ >= m.peak_pnl_ - m.realized_pnl_
    /\ m.peak_pnl_ >= m.realized_pnl_

C20_DrawdownStep ==
    /\ DrawdownOk(mm') /\ mm'.max_drawdown_ >= mm.max_drawdown_
    /\ DrawdownOk(mo') /\ mo'.max_drawdown_ >= mo.max_drawdown_
    /\ DrawdownOk(arb') /\ arb'.max_drawdown_ >= arb.max_drawdown_

(* C20: for every strategy max_drawdown >= 0, max_drawdown >= peak_pnl -   *)
(* realized_pnl and peak_pnl >= realized_pnl in every state, and           *)
(* max_drawdown never decreases.                                           *)
C20_DrawdownInvariants ==
    /\ DrawdownOk(mm) /\ DrawdownOk(mo) /\ DrawdownOk(arb)
    /\ [][C20_DrawdownStep]_vars

(* every strategy has seen a loss after a gain or after the start, and     *)
(* MomentumTrader has recovered from its deepest drawdown                  *)
C20_Witness ==
    /\ drv.last = "onTrade"
    /\ mm.max_drawdown_ > 0
    /\ arb.max_drawdown_ > 0
    /\ mo.max_drawdown_ > mo.peak_pnl_ - mo.realized_pnl_
    /\ mo.max_drawdown_ > 0

(* the trades of ts on the instrument b, counted *)
RECURSIVE CountOn(_, _)
CountOn(ts, b) ==
    IF ts = <<>> THEN 0
    ELSE (IF Head(ts).instrument = b THEN 1 ELSE 0) + CountOn(Tail(ts), b)

C14_OnOrderStep ==
    call'.op = "onOrder" =>
        LET tr == call'.trades
            ss == sim.strategies_
            ds == sim'.deliveries
            n == Len(ss)
        IN  /\ Len(ds) = Len(tr) * n
            /\ \A i \in 1..Len(tr) : \A j \in 1..n :
                   ds[(i - 1) * n + j] = [strategy |-> ss[j], trade |-> tr[i]]
            /\ \A i \in 1..(Len(tr) - 1) : tr[i].trade_id < tr[i + 1].trade_id
            /\ \A i \in 1..Len(tr) : tr[i].instrument = call'.book
            /\ \A b \in Instruments \ {call'.book} : books'[b] = books[b]
            /\ sim'.created = sim.created \cup {call'.book}
            /\ (\E j \in 1..n : ss[j] = "MomentumTrader") =>
                   mo'.total_trades_ = mo.total_trades_ + CountOn(tr, MoSymbol)
            /\ (\E j \in 1..n : ss[j] = "MarketMaker") =>
                   mm'.total_trades_ = mm.total_trades_ + CountOn(tr, MMSymbol)

(* The order of C14, for a call of onOrder that runs to its end: every     *)
(* trade the book returned goes to every registered strategy once, trade   *)
(* by trade in the book's order and within a trade in registration order,  *)
(* and only the book of the order's instrument is touched, which exists    *)
(* from then on.                                                           *)
C14_DispatchOrder == [][C14_OnOrderStep]_vars

(* one order made two trades, and both went to two or more strategies,     *)
(* MomentumTrader among them                                               *)
C14_Witness ==
    /\ call.op = "onOrder"
    /\ Len(call.trades) >= 2
    /\ Len(sim.strategies_) >= 2
    /\ Len(sim.deliveries) >= 4
    /\ mo.total_trades_ >= 2

(* thread t is inside an onTrade call made by onOrder *)
InOnTrade(t) == thr[t].pc \in {"onTrade", "join"}

(* thread t waits in join for the worker, which waits for mutex_, which t  *)
(* holds: neither can go on                                                *)
JoinDeadlock(t) ==
    /\ thr[t].pc = "join"
    /\ t # "worker"
    /\ sim.mutex_ = t
    /\ thr["worker"].pc = "wait"

(* the onOrder call of thread t can go no further *)
Halted(t) == drv.main = "terminated" \/ JoinDeadlock(t)

(* C14: onOrder delivers every trade returned by the book to every         *)
(* registered strategy's onTrade once, in the book's order and in          *)
(* registration order: the onTrade calls made so far by a call are the     *)
(* first ones of that list, and a call that can go no further has made     *)
(* them all.                                                               *)
C14_EveryTradeDelivered ==
    \A t \in Threads :
        thr[t].pc \in {"dispatch", "onTrade", "join"} =>
            LET ds == CallDeliveries(t)
                mine == SelectSeq(sim.deliveries, LAMBDA d : d.ticket = thr[t].ticket)
                made == IF thr[t].pc = "dispatch" THEN thr[t].next - 1 ELSE thr[t].next
            IN  /\ Len(mine) = made
                /\ \A k \in 1..made : /\ mine[k].strategy = ds[k].strategy
                                       /\ mine[k].trade = ds[k].trade
                /\ Halted(t) => made = Len(ds)

(* C15: no strategy's onTrade runs in two threads at once through onOrder, *)
(* and the trades reach each strategy call by call, in the order in which  *)
(* the calls took mutex_.                                                  *)
C15_DispatchSerialised ==
    /\ \A t, u \in Threads :
          (t # u /\ InOnTrade(t) /\ InOnTrade(u)) =>
              CallDeliveries(t)[thr[t].next].strategy # CallDeliveries(u)[thr[u].next].strategy
    /\ \A i, j \in 1..Len(sim.deliveries) :
          (i < j /\ sim.deliveries[i].strategy = sim.deliveries[j].strategy) =>
              sim.deliveries[i].ticket <= sim.deliveries[j].ticket

(* the worker is inside onTrade while the feed thread waits for mutex_,    *)
(* after an earlier call has delivered its trades                          *)
C15_Witness ==
    /\ thr["worker"].pc = "onTrade"
    /\ thr["feed"].pc = "wait"
    /\ sim.mutex_ = "worker"
    /\ \E i \in 1..Len(sim.deliveries) : sim.deliveries[i].ticket < thr["worker"].ticket

(* C17: when a strategy latches inside onTrade during a dispatch, the      *)
(* onOrder call returns and later calls are processed: the program is not  *)
(* terminated and no thread is left waiting for ever inside the dispatch.  *)
C17_DispatchReturns ==
    /\ drv.main # "terminated"
    /\ \A t \in Threads : ~JoinDeadlock(t)

(* C21: MarketMaker's onTrade accounts only its own fills: on its symbol a  *)
(* trade whose buy_order_id is in active_orders adds quantity to inventory  *)
(* and subtracts price*quantity from realized_pnl, one whose sell_order_id  *)
(* is in active_orders does the opposite, and a trade for another           *)
(* instrument or between two foreign orders leaves both unchanged.          *)
C21_OwnFillStep ==
    drv'.last = "onTrade" =>
        LET t == drv'.trade
            own == IF t.instrument = MMSymbol THEN DOMAIN mm.active_orders_ ELSE {}
            b == IF t.buy_order_id \in own THEN 1 ELSE 0
            s == IF t.sell_order_id \in own THEN 1 ELSE 0
        IN  /\ mm'.inventory_ = mm.inventory_ + (b - s) * t.quantity
            /\ mm'.realized_pnl_ = mm.realized_pnl_ - (b - s) * t.price * t.quantity

C21_OwnFillsOnly == [][C21_OwnFillStep]_vars

(* after a fill of the own bid, a trade between two foreign orders on the   *)
(* symbol has arrived while the own ask is still active                     *)
C21_Witness ==
    /\ drv.last = "onTrade"
    /\ drv.trade.instrument = MMSymbol
    /\ drv.trade.buy_order_id = 8
    /\ 2 \in DOMAIN mm.active_orders_
    /\ 1 \notin DOMAIN mm.active_orders_
    /\ mm.inventory_ = 1
    /\ mm.realized_pnl_ = 0 - 2
    /\ mm.total_trades_ = 2

(* C22: whenever both sides of the book are known in a quoting cycle, the   *)
(* prices MarketMaker quotes in that cycle satisfy bid < mid < ask, where   *)
(* mid is the mean of best bid and best ask, and the half-spread is at      *)
(* least 0.01 (2 units of 0.005).                                           *)
C22_QuoteStep ==
    (call'.op = "placeQuotes" /\ call'.top[1] # 0 /\ call'.top[2] # 0) =>
        \A i \in QuotesSubmitted(mm') :
            LET q == mm'.submitted[i]
                mid2 == call'.top[1] + call'.top[2]
            IN  /\ q.side = "BUY" => 2 * q.price < mid2 /\ mid2 - 2 * q.price >= 2 * 2
                /\ q.side = "SELL" => 2 * q.price > mid2 /\ 2 * q.price - mid2 >= 2 * 2

C22_QuotesAroundMid == [][C22_QuoteStep]_vars

(* a cycle over a book whose spread is 0.01 has quoted both sides at the    *)
(* floor of the half-spread                                                 *)
C22_Witness ==
    /\ call.op = "placeQuotes"
    /\ call.top = <<200, 202>>
    /\ call.top2 = <<200, 202>>
    /\ Len(mm.submitted) = 4
    /\ mm.submitted[3].price = 199
    /\ mm.submitted[4].price = 203

(* the last n elements of the sequence q, all of q when it is shorter *)
LastN(q, n) == IF Len(q) <= n THEN q ELSE SubSeq(q, Len(q) - n + 1, Len(q))

C23_CycleStep ==
    (call'.op = "evaluateMomentum" /\ Len(mo.recent_prices_) < 3) =>
        /\ call'.order = NoOrder
        /\ sim'.global_order_id = sim.global_order_id

(* C23: MomentumTrader's worker submits no order in a cycle in which fewer  *)
(* than 3 prices of its symbol are buffered, and the window holds the 5     *)
(* most recent prices of its symbol at most, never a price of another       *)
(* instrument.                                                              *)
C23_MomentumWindow ==
    /\ [](Len(mo.recent_prices_) <= 5 /\ mo.recent_prices_ = LastN(call.hist, 5))
    /\ [][C23_CycleStep]_vars

(* after a cycle that found fewer than 3 prices, more than 5 prices of the  *)
(* symbol and one of another instrument have arrived, and a cycle has       *)
(* submitted an order                                                       *)
C23_Witness ==
    /\ call.op = "evaluateMomentum"
    /\ call.order # NoOrder
    /\ call.short >= 1
    /\ Len(call.hist) > 5
    /\ drv.nfeed > Len(call.hist)

(* what C24 says of one onTrade call that took strategy record m to n *)
LatchesBelow(m, n) ==
    IF n.realized_pnl_ < n.max_loss_
    THEN n.risk_violated_ /\ ~n.running_
    ELSE n.risk_violated_ = m.risk_violated_

C24_OnTradeStep ==
    /\ (drv'.last = "onTrade" /\ drv'.trade.instrument = MoSymbol) => LatchesBelow(mo, mo')
    /\ ((drv'.last = "onTrade" /\ drv'.pc = "idle") \/ drv'.last = "onTradeResumed") =>
           LatchesBelow(arb, arb')

(* C24: for MomentumTrader and ArbitrageTrader, an onTrade call that leaves *)
(* realized_pnl < max_loss sets risk_violated and clears running; one that  *)
(* leaves realized_pnl >= max_loss does not set risk_violated.              *)
C24_LatchBelowLimit == [][C24_OnTradeStep]_vars

(* MomentumTrader has come to the loss limit exactly and has not latched,   *)
(* ArbitrageTrader has gone below it and has                                *)
C24_Witness ==
    /\ drv.last = "onTrade"
    /\ drv.pc = "idle"
    /\ mo.realized_pnl_ = mo.max_loss_
    /\ mo.total_trades_ > 0
    /\ ~mo.risk_violated_
    /\ mo.running_
    /\ arb.realized_pnl_ < arb.max_loss_
    /\ arb.risk_violated_
    /\ ~arb.running_

(* getPosition: the position in an instrument, 0 when positions_ has no    *)
(* entry for it                                                             *)
PositionOf(m, instrument) ==
    IF instrument \in DOMAIN m.positions_ THEN m.positions_[instrument] ELSE 0

(* the step is an onTrade call of ArbitrageTrader, with the trade drv'.trade *)
ArbOnTradeStep ==
    (drv'.last = "onTrade" /\ drv'.pc = "idle") \/ drv'.last = "onTradeResumed"

(* the last step was an onTrade call of ArbitrageTrader *)
ArbOnTradeWas ==
    (drv.last = "onTrade" /\ drv.pc = "idle") \/ drv.last = "onTradeResumed"

C25_ForeignStep ==
    (ArbOnTradeStep /\ drv'.trade.instrument \notin {symbol1_, symbol2_}) =>
        /\ PositionOf(arb', symbol1_) = PositionOf(arb, symbol1_)
        /\ PositionOf(arb', symbol2_) = PositionOf(arb, symbol2_)
        /\ arb'.realized_pnl_ = arb.realized_pnl_
        /\ arb'.peak_pnl_ = arb.peak_pnl_
        /\ arb'.max_drawdown_ = arb.max_drawdown_
        /\ arb'.total_trades_ = arb.total_trades_
        /\ arb'.total_quantity_ = arb.total_quantity_
        /\ arb'.risk_violated_ = arb.risk_violated_

(* C25: a trade for an instrument outside ArbitrageTrader's pair is         *)
(* ignored: onTrade leaves the positions of both symbols, realized_pnl,     *)
(* peak and drawdown, total_trades, total_quantity and risk_violated        *)
(* unchanged.                                                               *)
C25_ForeignTradeIgnored == [][C25_ForeignStep]_vars

C26_PairStep ==
    (ArbOnTradeStep /\ arb.running_ /\ drv'.trade.instrument \in {symbol1_, symbol2_}) =>
        LET t == drv'.trade
            qty == IF t.side = "BUY" THEN t.quantity ELSE 0 - t.quantity
            other == IF t.instrument = symbol1_ THEN symbol2_ ELSE symbol1_
        IN  /\ PositionOf(arb', t.instrument) = PositionOf(arb, t.instrument) + qty
            /\ PositionOf(arb', other) = PositionOf(arb, other)
            /\ arb'.realized_pnl_ = arb.realized_pnl_ + qty * t.price

C27_StopStep ==
    drv.main = "stopped" => ~(drv'.last = "submit" /\ nops' = nops + 1)

C27_StopEndsActivity == [][C27_StopStep]_vars

(* an order handed to the submit callback, without its id *)
Leg(instrument, side, price, qty) ==
    [book |-> instrument, type |-> "LIMIT", side |-> side, price |-> price,
     quantity |-> qty]

LegOf(h) == Leg(h.book, h.order.side, h.order.price, h.order.quantity)

(* the orders C30 prescribes for the quotes of m: prices in units of 0.01,  *)
(* so 0.05 is 5                                                             *)
C30_Prescribed(m) ==
    IF \E x \in {symbol1_, symbol2_} : x \notin DOMAIN m.best_bid_ \/ x \notin DOMAIN m.best_ask_
    THEN <<>>
    ELSE (IF m.best_bid_[symbol2_] - m.best_ask_[symbol1_] > 5
          THEN <<Leg(symbol1_, "BUY", m.best_ask_[symbol1_], 10),
                 Leg(symbol2_, "SELL", m.best_bid_[symbol2_], 10)>>
          ELSE <<>>)
         \o (IF m.best_bid_[symbol1_] - m.best_ask_[symbol2_] > 5
             THEN <<Leg(symbol2_, "BUY", m.best_ask_[symbol2_], 10),
                    Leg(symbol1_, "SELL", m.best_bid_[symbol1_], 10)>>
             ELSE <<>>)

C30_WitnessThreshold ==
    /\ drv.last = "mdReturn"
    /\ DOMAIN arb.best_bid_ = {symbol1_, symbol2_}
    /\ DOMAIN arb.best_ask_ = {symbol1_, symbol2_}
    /\ arb.best_bid_[symbol2_] - arb.best_ask_[symbol1_] = 5
    /\ arb.submitted = <<>>

C29_IntentStep ==
    (call'.op = "addOrder" /\ call'.order.type = "LIMIT" /\ call'.order.quantity = 0) =>
        /\ call'.trades = <<>>
        /\ books'[call'.book].bids = books[call'.book].bids
        /\ books'[call'.book].asks = books[call'.book].asks
        /\ books'[call'.book].orders_ = books[call'.book].orders_

(* C29: a LIMIT order of quantity 0 (the cancellation intent MarketMaker    *)
(* emits, on either side and whatever the book holds) crosses nothing and   *)
(* is not rested: addOrder emits no trade for it and leaves bids, asks and  *)
(* the id index unchanged.                                                  *)
C29_IntentLeavesBook == [][C29_IntentStep]_vars

(* C28: order ids are unique process-wide: every new order created by the   *)
(* feed or by a strategy takes its id from one counter, so no two distinct  *)
(* new orders that reach the Simulator carry the same id.                   *)
C28_OrderIdsUnique ==
    \A i, j \in 1..Len(call.created) :
        i # j => call.created[i].id # call.created[j].id

(* the window evaluateMomentum sees, from the prices handed over so far *)
C31_Window == LastN(call.hist, 5)

C31_Above ==
    LET w == C31_Window
        n == Len(w)
    IN  w[n] * (n - 1) > SumSeq(SubSeq(w, 1, n - 1))

C31_OrderStep ==
    (call'.op = "evaluateMomentum" /\ call'.order # NoOrder) =>
        /\ call'.order.type = "MARKET"
        /\ call'.order.quantity = 1
        /\ call'.order.instrument = MoSymbol
        /\ call'.order.side = IF C31_Above THEN "BUY" ELSE "SELL"

(* C31: every order MomentumTrader submits is a MARKET order of quantity 1  *)
(* for its symbol; its side is BUY exactly when the last buffered price is  *)
(* strictly above the mean of the earlier buffered prices, SELL otherwise,  *)
(* equality included.                                                       *)
C31_MomentumOrder == [][C31_OrderStep]_vars

(* a SELL was submitted on a window whose last price equals the mean of    *)
(* the earlier ones                                                        *)
C31_Witness ==
    /\ call.op = "evaluateMomentum"
    /\ call.order # NoOrder
    /\ call.order.side = "SELL"
    /\ Len(mo.recent_prices_) = 5
    /\ LET w == mo.recent_prices_
       IN  w[5] * 4 = SumSeq(SubSeq(w, 1, 4))

(* a BUY was submitted *)
C31_WitnessBuy ==
    /\ call.op = "evaluateMomentum"
    /\ call.order # NoOrder
    /\ call.order.side = "BUY"

C32_CycleStep ==
    (call'.op = "evaluateMomentum") =>
        /\ (mo.now < mo.cooldown_end_ts_ => call'.order = NoOrder)
        /\ (call'.order # NoOrder => mo'.cooldown_end_ts_ = mo.now + 1000000)
        /\ (call'.order = NoOrder => mo'.cooldown_end_ts_ = mo.cooldown_end_ts_)

(* any two submissions are at least 1 s apart *)
C32_Apart ==
    \A i, j \in 1..Len(call.sent) :
        i < j => call.sent[j] - call.sent[i] >= 1000000

(* C32: MomentumTrader is rate-limited by its cooldown: a worker cycle at   *)
(* time now submits nothing when now < cooldown_end_ts_, each submission    *)
(* sets cooldown_end_ts_ to now + 1,000,000 us, a cycle that submits        *)
(* nothing leaves cooldown_end_ts_ unchanged, and so any two orders of one  *)
(* MomentumTrader are at least 1,000,000 us apart.                          *)
C32_Cooldown == []C32_Apart /\ [][C32_CycleStep]_vars

(* an order, then a cycle held back by the cooldown, then a second order *)
C32_Witness ==
    /\ call.op = "evaluateMomentum"
    /\ call.order # NoOrder
    /\ Len(call.sent) = 2
    /\ mo.cycles = 3
    /\ call.short = 0

(* the new quotes among the orders a cycle handed to the submit callback *)
NewQuotes(q) == {i \in 1..Len(q) : q[i].quantity > 0}

C33_CountStep ==
    (mm.worker = "quote" /\ mm'.worker = "check") =>
        mm'.total_quotes_ - mm.total_quotes_ = Cardinality(NewQuotes(mm'.submitted))

(* C33: in each quoting cycle total_quotes_ grows by the number of new      *)
(* quotes submitted in that cycle (0, 1 or 2): a slot that keeps a fresh,   *)
(* unmoved quote counts nothing, and a cycle skipped for a missing mid      *)
(* changes total_quotes_ by 0.                                              *)
C33_QuotesCounted == [][C33_CountStep]_vars

(* a reading of the book that lacks a best bid or a best ask *)
LacksSide(top) == top[1] = 0 \/ top[2] = 0

C34_SkipStep ==
    (mm.worker = "quote" /\ mm'.worker = "check" /\ LacksSide(call'.top)) =>
        /\ mm'.submitted = <<>>
        /\ mm'.current_bid_id_ = mm.current_bid_id_
        /\ mm'.current_ask_id_ = mm.current_ask_id_
        /\ mm'.active_orders_ = mm.active_orders_
        /\ mm'.total_quotes_ = mm.total_quotes_

(* C34: when the book MarketMaker reads lacks a best bid or a best ask,     *)
(* the quoting cycle is skipped: no cancellation intent and no quote is     *)
(* submitted, and current_bid_id_, current_ask_id_, active_orders_ and      *)
(* total_quotes_ are unchanged.                                             *)
C34_NoMidSkips == [][C34_SkipStep]_vars

(* the second cycle was skipped on a book with a bid and no ask while     *)
(* both slots held the quotes of the first                                 *)
C34_Witness ==
    /\ call.op = "placeQuotes"
    /\ LacksSide(call.top)
    /\ call.top[1] # 0
    /\ mm.worker = "check"
    /\ mm.cycles = 2
    /\ mm.submitted = <<>>
    /\ mm.current_bid_id_ = 1
    /\ mm.current_ask_id_ = 2
    /\ DOMAIN mm.active_orders_ = {1, 2}

C35_IdleStep ==
    (call'.op \in {"onMarketData", "onTrade"} /\ ~call'.running
        /\ (drv'.nfeed # drv.nfeed \/ drv'.ntrades # drv.ntrades)) =>
        /\ arb'.best_bid_ = arb.best_bid_
        /\ arb'.best_ask_ = arb.best_ask_
        /\ arb'.positions_ = arb.positions_
        /\ arb'.realized_pnl_ = arb.realized_pnl_
        /\ arb'.total_trades_ = arb.total_trades_
        /\ arb'.total_quantity_ = arb.total_quantity_
        /\ arb'.submitted = <<>>

(* C35: ArbitrageTrader acts only while running: onMarketData and onTrade   *)
(* called before start, after stop or after the risk latch has stopped it   *)
(* leave best_bid_, best_ask_, positions_, realized_pnl_ and the trade      *)
(* counters unchanged and submit no order.                                  *)
C35_IdleWhenStopped == [][C35_IdleStep]_vars

(* onMarketData was called after the risk latch, with quotes on record     *)
(* that show an opportunity                                                *)
C35_Witness ==
    /\ call.op = "onMarketData"
    /\ ~call.running
    /\ arb.risk_violated_
    /\ drv.main = "run"
    /\ symbol2_ \in DOMAIN arb.best_bid_
    /\ symbol1_ \in DOMAIN arb.best_ask_
    /\ arb.best_bid_[symbol2_] - arb.best_ask_[symbol1_] > threshold

(* onTrade was called before start *)
C35_WitnessBeforeStart ==
    /\ call.op = "onTrade"
    /\ drv.main = "init"

(* onTrade was called after stop *)
C35_WitnessAfterStop ==
    /\ call.op = "onTrade"
    /\ ~call.running
    /\ drv.main = "stopped"
    /\ arb.total_trades_ > 0

(* C36: the re-entrant submit path of ArbitrageTrader makes progress: no   *)
(* thread requests mutex_ while it already holds it, so an order submitted *)
(* from onMarketData is processed, its trade is delivered to onTrade of    *)
(* the same ArbitrageTrader, and onMarketData returns.                     *)
C36_NoSelfLock == thr["feed"].pc # "relock"

(* C37: an OrderBook is never crossed: whenever both a best bid and a      *)
(* best ask exist, the best bid's price is strictly below the best ask's.  *)
C37_NeverCrossed ==
    \A b \in Instruments :
        (getBestBid(books[b]) # None /\ getBestAsk(books[b]) # None) =>
            getBestBid(books[b]).price < getBestAsk(books[b]).price

(* both sides rest after a crossing order has been matched *)
C37_Witness ==
    /\ getBestBid(books["ETH-USD"]) # None
    /\ getBestAsk(books["ETH-USD"]) # None
    /\ call.op = "addOrder"
    /\ call.trades # <<>>

(* C38: MarketMaker's internals are protected by pnl_mutex_: the quoting   *)
(* worker is never at a read or write of active_orders_, filled_quantity_, *)
(* inventory_ or realized_pnl_ while onTrade in another thread is at its   *)
(* accounting of them.                                                     *)
C38_NoUnorderedAccess == ~Racing

(* C39: MarketMaker's trade statistics are consistent: total_trades_       *)
(* counts the trades in which one of its active orders took part, the      *)
(* same trades whose quantities are summed into total_quantity_, so the    *)
(* average trade size total_quantity_ / total_trades_ is above 0 whenever  *)
(* total_trades_ is.                                                       *)
C39_StatsConsistent == mm.total_trades_ > 0 => mm.total_quantity_ > 0

(* all four quotes of the pair are on record *)
Quoted(m) ==
    {symbol1_, symbol2_} \subseteq (DOMAIN m.best_bid_ \cap DOMAIN m.best_ask_)

(* the opportunity to buy x and sell y: best_bid_[y] - best_ask_[x] > 0.05 *)
Opportunity(m, x, y) == Quoted(m) /\ m.best_bid_[y] - m.best_ask_[x] > 5

(* the two orders of that opportunity at the quotes of m *)
PairOf(m, x, y) ==
    <<Leg(x, "BUY", m.best_ask_[x], 10), Leg(y, "SELL", m.best_bid_[y], 10)>>

(* q holds the two orders of pair one after the other *)
HoldsPair(q, pair) ==
    \E i \in 1..(Len(q) - 1) : LegOf(q[i]) = pair[1] /\ LegOf(q[i + 1]) = pair[2]

(* no recorded quote is lost or loosened by the step *)
QuotesTighten ==
    /\ \A s \in DOMAIN arb.best_bid_ :
           s \in DOMAIN arb'.best_bid_ /\ arb'.best_bid_[s] >= arb.best_bid_[s]
    /\ \A s \in DOMAIN arb.best_ask_ :
           s \in DOMAIN arb'.best_ask_ /\ arb'.best_ask_[s] <= arb.best_ask_[s]

C40_Step ==
    /\ QuotesTighten
    /\ (call'.op = "onMarketData" /\ call'.running /\ drv'.nfeed # drv.nfeed) =>
           \A xy \in {<<symbol1_, symbol2_>>, <<symbol2_, symbol1_>>} :
               Opportunity(arb, xy[1], xy[2]) =>
                   /\ Opportunity(arb', xy[1], xy[2])
                   /\ HoldsPair(arb'.submitted, PairOf(arb', xy[1], xy[2]))

(* C40: ArbitrageTrader's observed quotes only tighten: best_bid_[s] never  *)
(* decreases and best_ask_[s] never increases, so an opportunity that held  *)
(* after some onMarketData call holds at every later one, and every later   *)
(* onMarketData call made while running, for any instrument and side,       *)
(* submits that opportunity's pair of LIMIT orders again (BUY the one       *)
(* symbol at its best ask, SELL the other at its best bid, quantity 10).    *)
C40_QuotesOnlyTighten == [][C40_Step]_vars

(* the pair was submitted by the fourth call and again by the fifth, at   *)
(* the lowest offer recorded for symbol1                                   *)
C40_Witness ==
    /\ call.op = "onMarketData"
    /\ call.running
    /\ drv.nfeed = 5
    /\ Len(arb.submitted) = 2
    /\ sim.global_order_id - 1 - drv.nfeed = 4
    /\ arb.best_ask_[symbol1_] = 10
    /\ LegOf(arb.submitted[1]) = Leg(symbol1_, "BUY", 10, 10)
    /\ LegOf(arb.submitted[2]) = Leg(symbol2_, "SELL", 17, 10)

====
